---- MODULE Spec2Model ----
(***************************************************************************)
(* GitUI: the worker template (base/base_worker.py), the pull and push     *)
(* workers (workers/), the scanners (scanners/) and the pull and push      *)
(* runners (core/pull_runner.py, core/push_runner.py).                     *)
(*                                                                         *)
(* Text is a sequence of tokens: a token is a file name, a phrase of git   *)
(* output, or one of the characters "\r" and "\n".  A JSON value is a      *)
(* tagged record (JNull, JStr, JList, JDict), so that a string and a       *)
(* one-element list of strings are different values, as in Python.         *)
(***************************************************************************)
EXTENDS Integers, Sequences, FiniteSets, TLC

\* ------------------------------------------------------------------ bounds
MaxRepos == 2
MaxLines == 2

\* ------------------------------------------------------------ JSON values
JNull == [t |-> "null"]
JStr(s) == [t |-> "str", v |-> s]
JList(l) == [t |-> "list", v |-> l]
JDict(d) == [t |-> "dict", v |-> d]

\* dict.get(key, default)
Get(d, key, default) == IF key \in DOMAIN d THEN d[key] ELSE default

\* ------------------------------------------------- PowerShell text helpers
\* [Environment]::NewLine where the workers run: they pass
\* subprocess.CREATE_NO_WINDOW, which exists on Windows only.
NewLine == <<"\r", "\n">>

RECURSIVE OutString(_, _)
\* `... | Out-String`: every input line followed by the platform newline.
OutString(lines, nl) ==
    IF lines = <<>> THEN <<>>
    ELSE <<Head(lines)>> \o nl \o OutString(Tail(lines), nl)

RECURSIVE SplitFrom(_, _, _)
SplitFrom(text, sep, cur) ==
    IF text = <<>> THEN <<cur>>
    ELSE IF Head(text) = sep THEN <<cur>> \o SplitFrom(Tail(text), sep, <<>>)
    ELSE SplitFrom(Tail(text), sep, Append(cur, Head(text)))

\* `$text -split "`n"`
Split(text, sep) == SplitFrom(text, sep, <<>>)

\* `| Where-Object { $_ -ne "" }`
WhereNotEmpty(segs) == SelectSeq(segs, LAMBDA s : s # <<>>)

\* What a variable holds after `$x = <pipeline>` and how ConvertTo-Json writes
\* it: nothing -> null, one object -> that object, several -> an array.
PipelineValue(objs) ==
    IF Len(objs) = 0 THEN JNull
    ELSE IF Len(objs) = 1 THEN JStr(objs[1])
    ELSE JList(objs)

\* `$text -match "a|b|c"`: some alternative occurs in the text
Matches(text, alternatives) == \E i \in 1..Len(text) : text[i] \in alternatives

\* ------------------------------------------------------ the pull script
LocalChangeMarkers ==
    { "error: Your local changes", "would be overwritten",
      "Please commit your changes or stash them" }

ConflictCodes == {"UU", "AA", "DD"}
\* the XY codes git reports for unmerged paths (git diff --diff-filter=U)
UnmergedCodes == {"DD", "AU", "UD", "UA", "DU", "AA", "UU"}

\* `$status -match "^(UU|AA|DD) "` on the lines of git status --porcelain
HasConflictMarker(status) == \E i \in 1..Len(status) : status[i].xy \in ConflictCodes

RECURSIVE FileNames(_)
FileNames(lines) ==
    IF lines = <<>> THEN <<>>
    ELSE <<Head(lines).file>> \o FileNames(Tail(lines))

\* the lines `git diff --name-only --diff-filter=U` prints for this status
GitDiffUnmerged(status) ==
    FileNames(SelectSeq(status, LAMBDA l : l.xy \in UnmergedCodes))

\* lines 113-114: $filesArray
FilesArray(status, nl) ==
    PipelineValue(WhereNotEmpty(Split(OutString(GitDiffUnmerged(status), nl), "\n")))

\* a pull script that takes every failed pull for a local-change failure
AnyFailureDetected(out) == TRUE

\* line 80: `$pullOutput -match "error: Your local changes|would be overwritten|..."`
LocalChangesDetected(out) == Matches(out, LocalChangeMarkers)

\* a pull script that does not look at the exit code of the second pull
RetryPullIgnored(w) == FALSE

\* line 96: `$LASTEXITCODE -ne 0` after the second git pull
RetryPullFailed(w) == w.pull2 # 0

\* GitPullWorker._get_powershell_command, run in world w (what the file system
\* and each git command answer).  log: the git commands run, in order;
\* stdout: the JSON object the script prints.
PullScript(w, name, nl) ==
    IF ~w.exists THEN
        [log |-> <<>>,
         stdout |-> JDict([Status |-> "MISSING", RepoName |-> name,
                           ErrorMessage |-> <<"Repository path does not exist">>])]
    ELSE IF w.throws THEN
        [log |-> <<>>,
         stdout |-> JDict([Status |-> "ERROR", RepoName |-> name,
                           ErrorMessage |-> <<"$_.Exception.Message">>])]
    ELSE IF w.pull1 = 0 THEN
        [log |-> <<"pull">>,
         stdout |-> JDict([Status |-> "SUCCESS", RepoName |-> name])]
    ELSE IF ~LocalChangesDetected(w.out1) THEN
        [log |-> <<"pull">>,
         stdout |-> JDict([Status |-> "ERROR", RepoName |-> name,
                           ErrorMessage |-> w.out1])]
    ELSE IF w.stash # 0 THEN
        [log |-> <<"pull", "stash push">>,
         stdout |-> JDict([Status |-> "ERROR", RepoName |-> name,
                           ErrorMessage |-> <<"Failed to stash changes: ", "$stashOutput">>])]
    ELSE IF RetryPullFailed(w) THEN
        [log |-> <<"pull", "stash push", "pull">>,
         stdout |-> JDict([Status |-> "ERROR", RepoName |-> name,
                           ErrorMessage |-> <<"Pull failed after stashing: ", "$pullOutput">>])]
    ELSE IF w.pop = 0 THEN
        [log |-> <<"pull", "stash push", "pull", "stash pop">>,
         stdout |-> JDict([Status |-> "SUCCESS", RepoName |-> name])]
    ELSE IF HasConflictMarker(w.status) THEN
        [log |-> <<"pull", "stash push", "pull", "stash pop", "status", "diff">>,
         stdout |-> JDict([Status |-> "CONFLICT", RepoName |-> name,
                           ErrorMessage |-> <<"Merge conflicts detected">>,
                           ConflictFiles |-> FilesArray(w.status, nl)])]
    ELSE
        [log |-> <<"pull", "stash push", "pull", "stash pop", "status">>,
         stdout |-> JDict([Status |-> "ERROR", RepoName |-> name,
                           ErrorMessage |-> <<"Failed to restore stash: ", "$popOutput">>])]

\* ------------------------------------------------------ the push script
\* GitPushWorker._get_powershell_command in world w.
\* A status test that never finds the repository clean
NeverClean(w) == FALSE

\* `if (-not $gitStatus)`: git status --porcelain printed nothing
IsClean(w) == w.clean

\* A commit whose exit code is not looked at
CommitIgnored(w) == FALSE

\* `if ($LASTEXITCODE -ne 0)` after git commit
CommitFailed(w) == w.commit # 0

PushScript(w, name) ==
    IF ~w.exists THEN
        [log |-> <<>>,
         stdout |-> JDict([Status |-> "MISSING", RepoName |-> name,
                           ErrorMessage |-> <<"Repository path does not exist">>,
                           Warnings |-> JList(<<>>)])]
    ELSE IF w.throws THEN
        [log |-> <<>>,
         stdout |-> JDict([Status |-> "ERROR", RepoName |-> name,
                           ErrorMessage |-> <<"$_.Exception.Message">>,
                           Warnings |-> JList(<<>>)])]
    ELSE IF IsClean(w) THEN
        [log |-> <<"status">>,
         stdout |-> JDict([Status |-> "SUCCESS", RepoName |-> name,
                           ErrorMessage |-> <<"No changes to commit">>,
                           Warnings |-> JList(<< <<"No changes to commit">> >>)])]
    ELSE IF w.add # 0 THEN
        [log |-> <<"status", "add">>,
         stdout |-> JDict([Status |-> "ERROR", RepoName |-> name,
                           ErrorMessage |-> <<"Failed to stage changes">>,
                           Warnings |-> JList(<<>>)])]
    ELSE IF CommitFailed(w) THEN
        [log |-> <<"status", "add", "status", "commit">>,
         stdout |-> JDict([Status |-> "ERROR", RepoName |-> name,
                           ErrorMessage |-> <<"Failed to commit changes">>,
                           Warnings |-> JList(<<>>)])]
    ELSE IF w.push # 0 THEN
        [log |-> <<"status", "add", "status", "commit", "push">>,
         stdout |-> JDict([Status |-> "ERROR", RepoName |-> name,
                           ErrorMessage |-> <<"Failed to push: ">> \o OutString(w.pushout, NewLine),
                           Warnings |-> JList(<<>>)])]
    ELSE
        [log |-> <<"status", "add", "status", "commit", "push">>,
         stdout |-> JDict([Status |-> "SUCCESS", RepoName |-> name,
                           Warnings |-> JList(<<>>)])]

\* ------------------------------------------------------ the scan script
\* PowerShellScannerWorker._get_powershell_command: one object per repository
\* whose delta is > 0, then `$results | ConvertTo-Json` or '[]'.
ScanItem(r, field) ==
    JDict([n \in {"Name", "Path", field} |->
              IF n = "Name" THEN r.name ELSE IF n = "Path" THEN r.path ELSE r.delta])

\* A script that reports every repository
IncludedAlways(r) == TRUE

\* the script block's tests: the git commands succeeded ($LASTEXITCODE -eq 0
\* and a non-empty answer) and the count is greater than 0
Included(r) == r.ok /\ r.delta > 0

\* ForEach-Object -Parallel hands over its objects as the script blocks end:
\* order[i] is the repository whose block ended i-th
ScanOutput(found, order, field) ==
    LET done == [i \in 1..Len(found) |-> found[order[i]]]
        results == SelectSeq(done, Included)
        items == [i \in 1..Len(results) |-> ScanItem(results[i], field)]
    IN  IF Len(items) = 0 THEN JList(<<>>)
        ELSE IF Len(items) = 1 THEN items[1]
        ELSE JList(items)

DeltaField(k) == IF k = "pullscan" THEN "Behind" ELSE "FilesChanged"

\* ------------------------------------------------------ the Python side
ScanKinds == {"pullscan", "pushscan"}
OpKinds == {"pull", "push"}
Kinds == OpKinds \cup ScanKinds

\* PullResult(...) with __post_init__ (workers/git_pull_worker.py 11-23)
PullResult(status, repo_name, repo_path, error_message, conflict_files) ==
    [status |-> status, repo_name |-> repo_name, repo_path |-> repo_path,
     error_message |-> error_message,
     conflict_files |-> IF conflict_files = JNull THEN JList(<<>>) ELSE conflict_files]

\* PushResult(...) with __post_init__ (workers/git_push_worker.py 11-24)
PushResult(status, repo_name, repo_path, error_message, warnings, is_excluded) ==
    [status |-> status, repo_name |-> repo_name, repo_path |-> repo_path,
     error_message |-> error_message,
     warnings |-> IF warnings = JNull THEN JList(<<>>) ELSE warnings,
     is_excluded |-> is_excluded]

ScanResult(repos) == [repos |-> repos]

\* _get_error_result of the three worker families
get_error_result(k, self, error_message) ==
    IF k = "pull" THEN PullResult("ERROR", self.name, self.path, error_message, JNull)
    ELSE IF k = "push" THEN
        PushResult("ERROR", self.name, self.path, error_message, JNull, FALSE)
    ELSE ScanResult(<<>>)

\* _create_result_from_data of the pull and the push worker
create_result_from_data(k, self, d) ==
    IF k = "pull" THEN
        PullResult(Get(d, "Status", "ERROR"), Get(d, "RepoName", self.name), self.path,
                   Get(d, "ErrorMessage", <<>>), Get(d, "ConflictFiles", JList(<<>>)))
    ELSE
        PushResult(Get(d, "Status", "ERROR"), Get(d, "RepoName", self.name), self.path,
                   Get(d, "ErrorMessage", <<>>), Get(d, "Warnings", JList(<<>>)), FALSE)

\* _create_repo_status: item["Name"], item["Path"], item["Behind"|"FilesChanged"]
RepoItemOk(k, item) ==
    item.t = "dict" /\ {"Name", "Path", DeltaField(k)} \subseteq DOMAIN item.v

create_repo_status(k, item) ==
    [name |-> item.v["Name"], path |-> item.v["Path"], delta |-> item.v[DeltaField(k)]]

\* What _parse_result does with the stripped stdout: exc = the exception class
\* it raises ("none": it returns result).
Parsed(exc, result) == [exc |-> exc, result |-> result]

\* BaseOperationWorker._parse_result
parse_operation(k, self, out) ==
    IF out.t = "empty" THEN
        Parsed("none", get_error_result(k, self, <<"No output from PowerShell script">>))
    ELSE IF out.t = "malformed" THEN Parsed("JSONDecodeError", JNull)
    ELSE IF out.v.t # "dict" THEN Parsed("Exception", JNull)
    ELSE Parsed("none", create_result_from_data(k, self, out.v.v))

\* _parse_result without `if isinstance(data, dict): data = [data]`: iterating
\* a dict yields its keys, and key["Name"] raises
parse_scan_no_wrap(k, out) ==
    IF out.t = "empty" \/ (out.t = "json" /\ out.v = JList(<<>>)) THEN
        Parsed("none", ScanResult(<<>>))
    ELSE IF out.t = "malformed" THEN Parsed("JSONDecodeError", JNull)
    ELSE LET data == IF out.v.t = "list" THEN out.v.v ELSE <<JNull>>
         IN  IF \A i \in 1..Len(data) : RepoItemOk(k, data[i]) THEN
                 Parsed("none",
                        ScanResult([i \in 1..Len(data) |-> create_repo_status(k, data[i])]))
             ELSE Parsed("Exception", JNull)

\* BaseScannerWorker._parse_result
parse_scan(k, out) ==
    IF out.t = "empty" \/ (out.t = "json" /\ out.v = JList(<<>>)) THEN
        Parsed("none", ScanResult(<<>>))
    ELSE IF out.t = "malformed" THEN Parsed("JSONDecodeError", JNull)
    ELSE LET data == IF out.v.t = "dict" THEN <<out.v>>
                     ELSE IF out.v.t = "list" THEN out.v.v ELSE <<JNull>>
         IN  IF \A i \in 1..Len(data) : RepoItemOk(k, data[i]) THEN
                 Parsed("none",
                        ScanResult([i \in 1..Len(data) |-> create_repo_status(k, data[i])]))
             ELSE Parsed("Exception", JNull)

parse_result(k, self, out) ==
    IF k \in OpKinds THEN parse_operation(k, self, out) ELSE parse_scan(k, out)

\* ================================================== inputs of a single task
PathOf(name) == <<"C:/GitHub/", name>>
RepoOf(name) == [name |-> name, path |-> PathOf(name)]

StatusCodes == {"UU", "AA", "DD", "UD", "M"}
FileSet == {"config.json", "file.txt", "README.md"}
StatusLines == [xy : StatusCodes, file : FileSet]

\* outputs of `git status --porcelain`: at most MaxLines lines, one per file
StatusOutputs ==
    UNION { { st \in [1..n -> StatusLines] :
                \A i, j \in 1..n : i # j => st[i].file # st[j].file } : n \in 0..MaxLines }

FailOutputs ==
    { <<"fatal: unable to access">>,
      <<"error: Your local changes", "would be overwritten",
        "Please commit your changes or stash them">>,
      <<"would be overwritten">>,
      <<>> }

\* dotgit: the directory holds .git; the scripts never test it, git does
BasePullWorld ==
    [exists |-> TRUE, dotgit |-> TRUE, throws |-> FALSE, pull1 |-> 0, out1 |-> <<"Already up to date.">>,
     stash |-> 0, pull2 |-> 0, pop |-> 0, status |-> <<>>]

MarkerOutputs == { o \in FailOutputs : Matches(o, LocalChangeMarkers) }

\* Every answer the pull script can observe; what it never asks stays default.
\* a directory without .git: git pull fails, "not a git repository"
NoGitPullWorld ==
    [BasePullWorld EXCEPT !.dotgit = FALSE, !.pull1 = 128,
                          !.out1 = <<"fatal: not a git repository">>]

PullWorlds ==
    { [BasePullWorld EXCEPT !.exists = FALSE, !.dotgit = FALSE], NoGitPullWorld,
      [BasePullWorld EXCEPT !.throws = TRUE], BasePullWorld }
    \cup { [BasePullWorld EXCEPT !.pull1 = 1, !.out1 = o] : o \in FailOutputs }
    \cup { [BasePullWorld EXCEPT !.pull1 = 1, !.out1 = o, !.stash = 1] : o \in MarkerOutputs }
    \cup { [BasePullWorld EXCEPT !.pull1 = 1, !.out1 = o, !.pull2 = 1] : o \in MarkerOutputs }
    \cup { [BasePullWorld EXCEPT !.pull1 = 1, !.out1 = <<"would be overwritten">>,
                                 !.pop = 1, !.status = st] : st \in StatusOutputs }

BasePushWorld ==
    [exists |-> TRUE, dotgit |-> TRUE, throws |-> FALSE, clean |-> FALSE, add |-> 0, commit |-> 0, push |-> 0,
     pushout |-> <<"Everything up-to-date">>]

\* a directory without .git: `git status 2>&1` prints the fatal message (not
\* empty), git add fails
NoGitPushWorld == [BasePushWorld EXCEPT !.dotgit = FALSE, !.add = 128]

PushWorlds ==
    { [BasePushWorld EXCEPT !.exists = FALSE, !.dotgit = FALSE], NoGitPushWorld,
      [BasePushWorld EXCEPT !.throws = TRUE],
      [BasePushWorld EXCEPT !.clean = TRUE], BasePushWorld,
      [BasePushWorld EXCEPT !.add = 1], [BasePushWorld EXCEPT !.commit = 1],
      [BasePushWorld EXCEPT !.push = 1, !.pushout = <<"! [rejected] main (fetch first)">>] }

\* The repositories under the scan paths, in directory order, and their deltas
RepoNameSeq == <<"dotfiles", "nvim-config", "api-project", "secret-repo">>

\* a repository's delta: computed (0 or more), or not computable (no upstream,
\* a git command that fails)
DeltaCases == { [ok |-> TRUE, delta |-> 0], [ok |-> TRUE, delta |-> 1],
                [ok |-> FALSE, delta |-> 0] }

Orders(n) ==
    { p \in [1..n -> 1..n] : \A i, j \in 1..n : i # j => p[i] # p[j] }

ScanWorlds ==
    UNION { { [found |-> [i \in 1..n |->
                             [name |-> RepoNameSeq[i], path |-> PathOf(RepoNameSeq[i]),
                              delta |-> d[i].delta, ok |-> d[i].ok]],
               order |-> p] : d \in [1..n -> DeltaCases], p \in Orders(n) }
            : n \in 0..MaxRepos }

\* the scans of a whole run end their script blocks in directory order
PoolScanWorlds == { w \in ScanWorlds : \A i \in 1..Len(w.order) : w.order[i] = i }

Worlds(k) ==
    IF k = "pull" THEN PullWorlds ELSE IF k = "push" THEN PushWorlds ELSE ScanWorlds

\* =================================================================== state
Tasks == 0..MaxRepos          \* 0: the scanner (runner.worker); i >= 1: the worker of row i
Rows == 1..MaxRepos

VARIABLES
    workers,    \* per task, the QRunnable: kind, pc, _is_running, signals, repo, locals
    evq,        \* signal emissions posted to the receiving thread, in order
    runner,     \* the fields of the GitPullRunner / GitPushRunner window
    world,      \* per task, what the file system and git answered to its command
    gitlog,     \* per task, the git commands its script has run
    emits,      \* per task, the signals it has emitted
    stop_pc     \* per task, where its run() stood when stop() was called ("": never)

vars == <<workers, evq, runner, world, gitlog, emits, stop_pc>>

NoTask ==
    [kind |-> "none", pc |-> "none", is_running |-> TRUE, signals |-> TRUE,
     repo |-> [name |-> "", path |-> ""], proc |-> [kind |-> "none"],
     err |-> <<>>, res |-> JNull, total |-> 0]

\* BaseWorker.__init__ (and the subclasses'): _is_running = True, fresh Signals
NewWorker(k, repo) ==
    [NoTask EXCEPT !.kind = k, !.pc = "queued", !.repo = repo]

NoWorld == [none |-> TRUE]

\* The slots the runners connect (pull_runner.py 135-137, 214-217;
\* push_runner.py 121-123, 288-291): an emission to no slot queues nothing.
Connected(k, sig) == k \in ScanKinds \/ sig \in {"finished", "conflict_detected"}

\* _safe_emit without the test of _is_running
unsafe_emit(t, wk, sig, payload) ==
    /\ evq' = Append(evq, [sig |-> sig, task |-> t, payload |-> payload])
    /\ emits' = [emits EXCEPT ![t] = Append(@, sig)]
    /\ workers' = [workers EXCEPT ![t] = wk]

\* BaseWorker._safe_emit: emit if running and the Signals object is alive; a
\* RuntimeError of a deleted Signals object clears _is_running.
safe_emit(t, wk, sig, payload) ==
    IF wk.is_running /\ wk.signals THEN
        /\ evq' = IF Connected(wk.kind, sig)
                  THEN Append(evq, [sig |-> sig, task |-> t, payload |-> payload])
                  ELSE evq
        /\ emits' = [emits EXCEPT ![t] = Append(@, sig)]
        /\ workers' = [workers EXCEPT ![t] = wk]
    ELSE
        /\ evq' = evq
        /\ emits' = emits
        /\ workers' = [workers EXCEPT ![t] = [wk EXCEPT !.is_running = FALSE]]

\* "powershell_throttle_limit" of the default settings, and the values the
\* settings dialog accepts for it; neither runner reads the setting
powershell_throttle_limit == 30

ThrottleRange == 1..100

\* QThreadPool() of _setup_scanner keeps its default maxThreadCount, the
\* number of cores (two here): a queued runnable waits for a free thread.
MaxThreadCount == 2

ThreadFree ==
    Cardinality({ u \in Tasks : workers[u].pc \notin {"none", "queued", "done"} })
        < MaxThreadCount

\* ---------------------------------------------------------- BaseWorker.run
\* line 137: `if not self._is_running: return`
RunBegin(t) ==
    /\ \/ workers[t].kind \in OpKinds /\ workers[t].pc = "queued" /\ ThreadFree
       \/ workers[t].kind \in ScanKinds /\ workers[t].pc = "begin"
    /\ workers' = [workers EXCEPT ![t].pc = IF workers[t].is_running THEN "exec" ELSE "done"]
    /\ UNCHANGED <<evq, runner, world, gitlog, emits, stop_pc>>

\* The script of task kind k in world w and what it prints
Script(k, w, name) ==
    IF k = "pull" THEN PullScript(w, name, NewLine)
    ELSE IF k = "push" THEN PushScript(w, name)
    ELSE [log |-> <<>>, stdout |-> ScanOutput(w.found, w.order, DeltaField(k))]

\* subprocess.run of lines 113-123 under transport tr:
\*   ok: pwsh ran the script to its end, exit code 0
\*   timeout: TimeoutExpired after `cut` git commands were started
\*   oserror: pwsh could not be started
\*   nonzero: pwsh ended with a non-zero exit code (every branch of the
\*     scripts ends in `exit 0`, so the script itself did not run)
\*   empty / malformed / wrongshape: exit code 0, stdout empty, not JSON,
\*     or JSON of another shape than the script's
Completed(rc, out) == [kind |-> "completed", returncode |-> rc, stdout |-> out]

\* the characters pwsh wrote to stderr before it exited with a non-zero code
StderrLimit == 200

Stderr(n) == [i \in 1..n |-> i]

StderrLengths == {0, StderrLimit, StderrLimit + 1}

\* The whole text, without the slice
NoSlice(s, n) == s

\* Python's s[:n]
Slice(s, n) == SubSeq(s, 1, IF Len(s) < n THEN Len(s) ELSE n)

Failed(rc, stderr) ==
    [kind |-> "completed", returncode |-> rc, stdout |-> [t |-> "empty"], stderr |-> stderr]

RunProcess(k, w, name, tr) ==
    LET s == Script(k, w, name) IN
    IF tr.kind = "ok" THEN
        [proc |-> Completed(0, [t |-> "json", v |-> s.stdout]), log |-> s.log]
    ELSE IF tr.kind = "timeout" THEN
        [proc |-> [kind |-> "TimeoutExpired"], log |-> SubSeq(s.log, 1, tr.cut)]
    ELSE IF tr.kind = "oserror" THEN
        [proc |-> [kind |-> "OSError"], log |-> <<>>]
    ELSE IF tr.kind = "nonzero" THEN
        [proc |-> Failed(1, Stderr(tr.cut)), log |-> <<>>]
    ELSE IF tr.kind = "empty" THEN
        [proc |-> Completed(0, [t |-> "empty"]), log |-> s.log]
    ELSE IF tr.kind = "malformed" THEN
        [proc |-> Completed(0, [t |-> "malformed"]), log |-> s.log]
    ELSE IF tr.kind = "missingfield" THEN
        [proc |-> Completed(0, [t |-> "json", v |-> JDict([RepoName |-> name])]),
         log |-> s.log]
    ELSE
        [proc |-> Completed(0, [t |-> "json", v |-> JStr(<<"text">>)]), log |-> s.log]

Transport(kind, cut) == [kind |-> kind, cut |-> cut]

\* A failing transport is tried on the worlds with at most one status line
Transports(k, w, name) ==
    { Transport("ok", 0) }
    \cup { Transport(x, 0) : x \in IF k = "pull" /\ Len(w.status) > 1 THEN {}
                      ELSE {"oserror", "empty", "malformed", "wrongshape", "missingfield"} }
    \cup { Transport("nonzero", n) :
              n \in IF k = "pull" /\ Len(w.status) > 1 THEN {} ELSE StderrLengths }
    \cup { Transport("timeout", c) :
              c \in IF k = "pull" /\ Len(w.status) > 1 THEN {}
                    ELSE 0..Len(Script(k, w, name).log) }

\* lines 141-147: build the command and run it; the thread blocks until
\* subprocess.run returns or raises.
run_powershell(t, w, tr) ==
    /\ workers[t].pc = "exec"
    /\ LET r == RunProcess(workers[t].kind, w, workers[t].repo.name, tr) IN
        /\ workers' = [workers EXCEPT ![t].pc = "returned", ![t].proc = r.proc]
        /\ gitlog' = [gitlog EXCEPT ![t] = r.log]
        /\ world' = [world EXCEPT ![t] = w]
    /\ UNCHANGED <<evq, runner, emits, stop_pc>>

\* lines 149-157 and the except clauses 164-175 up to their first emission
AfterExec(t) ==
    /\ workers[t].pc = "returned"
    /\ LET wk == workers[t]
           k == wk.kind
       IN  workers' = [workers EXCEPT ![t] =
             IF wk.proc.kind = "TimeoutExpired" THEN
                 [wk EXCEPT !.pc = "emit_error",
                            !.err = <<"Timeout: Operation took too long">>,
                            !.res = get_error_result(k, wk.repo, <<"Timeout">>)]
             ELSE IF wk.proc.kind = "OSError" THEN
                 [wk EXCEPT !.pc = "emit_error",
                            !.err = <<"Unexpected error: ", "str(e)[:200]">>,
                            !.res = get_error_result(k, wk.repo, <<"str(e)">>)]
             ELSE IF ~wk.is_running THEN [wk EXCEPT !.pc = "done"]
             ELSE IF wk.proc.returncode # 0 THEN
                 [wk EXCEPT !.pc = "emit_error",
                            !.err = <<"PowerShell error: ">>
                                        \o Slice(wk.proc.stderr, StderrLimit),
                            !.res = get_error_result(k, wk.repo, <<>>)]
             ELSE [wk EXCEPT !.pc = "parse"]]
    /\ UNCHANGED <<evq, runner, world, gitlog, emits, stop_pc>>

\* _parse_result whose exceptions other than JSONDecodeError leave run()
ParseResultRaises(t) ==
    /\ workers[t].pc = "parse"
    /\ LET wk == workers[t]
           k == wk.kind
           p == parse_result(k, wk.repo, wk.proc.stdout)
       IN  IF p.exc = "JSONDecodeError" THEN
               /\ workers' = [workers EXCEPT ![t] =
                     [wk EXCEPT !.pc = "emit_error",
                                !.err = <<"Failed to parse results: ", "str(e)">>,
                                !.res = get_error_result(k, wk.repo, <<"Parse error">>)]]
               /\ UNCHANGED <<evq, emits>>
           ELSE IF p.exc = "Exception" THEN
               /\ workers' = [workers EXCEPT ![t] = [wk EXCEPT !.pc = "done"]]
               /\ UNCHANGED <<evq, emits>>
           ELSE IF k = "pull" /\ p.result.status = "CONFLICT" THEN
               safe_emit(t, [wk EXCEPT !.pc = "emit_finished", !.res = p.result],
                         "conflict_detected", wk.repo)
           ELSE
               /\ workers' = [workers EXCEPT ![t] =
                     [wk EXCEPT !.pc = "emit_finished", !.res = p.result]]
               /\ UNCHANGED <<evq, emits>>
    /\ UNCHANGED <<runner, world, gitlog, stop_pc>>

\* lines 160-161 with GitPullWorker._create_result_from_data 175-177 (the
\* conflict_detected emission) and the except clauses 168-175
ParseResult(t) ==
    /\ workers[t].pc = "parse"
    /\ LET wk == workers[t]
           k == wk.kind
           p == parse_result(k, wk.repo, wk.proc.stdout)
       IN  IF p.exc = "JSONDecodeError" THEN
               /\ workers' = [workers EXCEPT ![t] =
                     [wk EXCEPT !.pc = "emit_error",
                                !.err = <<"Failed to parse results: ", "str(e)">>,
                                !.res = get_error_result(k, wk.repo, <<"Parse error">>)]]
               /\ UNCHANGED <<evq, emits>>
           ELSE IF p.exc = "Exception" THEN
               /\ workers' = [workers EXCEPT ![t] =
                     [wk EXCEPT !.pc = "emit_error",
                                !.err = <<"Unexpected error: ", "str(e)[:200]">>,
                                !.res = get_error_result(k, wk.repo, <<"str(e)">>)]]
               /\ UNCHANGED <<evq, emits>>
           ELSE IF k = "pull" /\ p.result.status = "CONFLICT" THEN
               safe_emit(t, [wk EXCEPT !.pc = "emit_finished", !.res = p.result],
                         "conflict_detected", wk.repo)
           ELSE
               /\ workers' = [workers EXCEPT ![t] =
                     [wk EXCEPT !.pc = "emit_finished", !.res = p.result]]
               /\ UNCHANGED <<evq, emits>>
    /\ UNCHANGED <<runner, world, gitlog, stop_pc>>

\* An error path that returns after the error signal, without a result
EmitErrorOnly(t) ==
    /\ workers[t].pc = "emit_error"
    /\ safe_emit(t, [workers[t] EXCEPT !.pc = "done"], "error", workers[t].err)
    /\ UNCHANGED <<runner, world, gitlog, stop_pc>>

\* _safe_emit_error of lines 155, 166, 170, 174
EmitError(t) ==
    /\ workers[t].pc = "emit_error"
    /\ safe_emit(t, [workers[t] EXCEPT !.pc = "emit_finished"], "error", workers[t].err)
    /\ UNCHANGED <<runner, world, gitlog, stop_pc>>

\* _safe_emit_finished of lines 156, 162, 167, 171, 175
EmitFinished(t) ==
    /\ workers[t].pc = "emit_finished"
    /\ safe_emit(t, [workers[t] EXCEPT !.pc = "done"], "finished", workers[t].res)
    /\ UNCHANGED <<runner, world, gitlog, stop_pc>>

\* BaseWorker.stop, called from another thread at any moment of the run
Stop(t) ==
    /\ workers[t].kind # "none"
    /\ workers[t].pc # "done"
    /\ workers[t].is_running
    /\ workers' = [workers EXCEPT ![t].is_running = FALSE]
    /\ stop_pc' = [stop_pc EXCEPT ![t] = workers[t].pc]
    /\ UNCHANGED <<evq, runner, world, gitlog, emits>>

\* The Signals QObject is deleted under the worker (the application closes)
SignalsDeleted(t) ==
    /\ workers[t].kind # "none"
    /\ workers[t].pc # "done"
    /\ workers[t].signals
    /\ workers' = [workers EXCEPT ![t].signals = FALSE]
    /\ UNCHANGED <<evq, runner, world, gitlog, emits, stop_pc>>

\* ---------------------------------------------------- BaseScannerWorker.run
CountOutcomes == {"number", "not a number", "timeout"}

\* _count_repositories (lines 209-226): the count, or 0 on any failure
count_repositories(outcome, n) == IF outcome = "number" THEN n ELSE 0

\* run() line 236, in the world w the scanner finds under its scan paths
CountStep(t, w) ==
    /\ workers[t].kind \in ScanKinds
    /\ workers[t].pc = "queued"
    /\ ThreadFree
    /\ \E outcome \in CountOutcomes :
          workers' = [workers EXCEPT ![t].pc = "progress",
                                     ![t].total = count_repositories(outcome, Len(w.found))]
    /\ world' = [world EXCEPT ![t] = w]
    /\ UNCHANGED <<evq, runner, gitlog, emits, stop_pc>>

CountRepositories(t) == \E w \in ScanWorlds : CountStep(t, w)

\* A run() that gives up when the count came out as 0
EmitProgressAborts(t) ==
    /\ workers[t].pc = "progress"
    /\ safe_emit(t, [workers[t] EXCEPT
                        !.pc = IF workers[t].is_running /\ workers[t].signals
                                  /\ workers[t].total > 0
                               THEN "begin" ELSE "done"],
                 "progress", workers[t].total)
    /\ UNCHANGED <<runner, world, gitlog, stop_pc>>

\* lines 236-242: emit progress(0, total), then `if not self._is_running: return`
EmitProgress(t) ==
    /\ workers[t].pc = "progress"
    /\ safe_emit(t, [workers[t] EXCEPT
                        !.pc = IF workers[t].is_running /\ workers[t].signals
                               THEN "begin" ELSE "done"],
                 "progress", workers[t].total)
    /\ UNCHANGED <<runner, world, gitlog, stop_pc>>

IdleRunner == [mode |-> "none", rpc |-> "none"]

\* ============================================ one task, run on its own thread
TaskRunPowershell(t) ==
    /\ workers[t].pc = "exec"
    /\ \E w \in IF workers[t].kind \in ScanKinds THEN {world[t]} ELSE Worlds(workers[t].kind) :
          \E tr \in Transports(workers[t].kind, w, workers[t].repo.name) :
              run_powershell(t, w, tr)

TaskId(k) == IF k \in ScanKinds THEN 0 ELSE 1

InitTask ==
    /\ \E k \in Kinds :
          workers = [t \in Tasks |->
                        IF t = TaskId(k) THEN NewWorker(k, RepoOf("api-project")) ELSE NoTask]
    /\ evq = <<>>
    /\ runner = IdleRunner
    /\ world = [t \in Tasks |-> NoWorld]
    /\ gitlog = [t \in Tasks |-> <<>>]
    /\ emits = [t \in Tasks |-> <<>>]
    /\ stop_pc = [t \in Tasks |-> ""]

NextTask ==
    \E t \in Tasks :
          \/ RunBegin(t)
          \/ TaskRunPowershell(t)
          \/ AfterExec(t)
          \/ ParseResult(t)
          \/ EmitError(t)
          \/ EmitFinished(t)
          \/ CountRepositories(t)
          \/ EmitProgress(t)
          \/ Stop(t)
          \/ SignalsDeleted(t)

SpecTask == InitTask /\ [][NextTask]_vars

\* ================================= one scan, then the same scan once more
\* The second scanner starts when the first has ended, and finds the
\* repositories the first one found, unchanged.
Rescan(t) ==
    /\ t \in {0, 1}
    /\ t = 1 => workers[0].pc = "done"
    /\ \E w \in ScanWorlds :
          /\ t = 1 => w.found = world[0].found
          /\ CountStep(t, w)

InitRescan ==
    /\ \E k \in ScanKinds :
          workers = [t \in Tasks |->
                        IF t \in {0, 1} THEN NewWorker(k, RepoOf("GitHub")) ELSE NoTask]
    /\ evq = <<>>
    /\ runner = IdleRunner
    /\ world = [t \in Tasks |-> NoWorld]
    /\ gitlog = [t \in Tasks |-> <<>>]
    /\ emits = [t \in Tasks |-> <<>>]
    /\ stop_pc = [t \in Tasks |-> ""]

NextRescan ==
    \E t \in Tasks :
          \/ Rescan(t)
          \/ EmitProgress(t)
          \/ RunBegin(t)
          \/ TaskRunPowershell(t)
          \/ AfterExec(t)
          \/ ParseResult(t)
          \/ EmitError(t)
          \/ EmitFinished(t)

SpecRescan == InitRescan /\ [][NextRescan]_vars

\* ================================= ExcludeManager (core/exclude_manager.py)
\* The singleton's state: the JSON file on disk (absent, corrupted, or the
\* "machines" dictionary) and the cached dictionary _exclusions (loaded on first
\* use); last and prev are the two latest calls, for the properties.
Me == "me"                       \* get_current_machine_name()
Machines == {Me, "other"}
ExNames == { RepoNameSeq[i] : i \in 1..MaxRepos }

Range(seq) == { seq[i] : i \in 1..Len(seq) }

NoMachines == [x \in {} |-> <<>>]

NoCall == [op |-> "none", name |-> "", ret |-> TRUE, before |-> <<>>]

Manager(file) ==
    [mode |-> "exclude", rpc |-> "none", file |-> file,
     cache |-> [loaded |-> FALSE, machines |-> NoMachines],
     last |-> NoCall, prev |-> NoCall]

\* load_exclusions: the file's dictionary, or the empty structure when the
\* file is absent or cannot be decoded
load_exclusions(file) == IF file.state = "ok" THEN file.machines ELSE NoMachines

get_exclusions(m) ==
    IF m.cache.loaded THEN m
    ELSE [m EXCEPT !.cache = [loaded |-> TRUE, machines |-> load_exclusions(m.file)]]

get_excluded_repos(m) ==
    LET machines == get_exclusions(m).cache.machines
    IN  IF Me \in DOMAIN machines THEN machines[Me] ELSE <<>>

is_excluded_name(m, repo_name) == repo_name \in Range(get_excluded_repos(m))

\* save_exclusions: the cached dictionary gets the list first; then the file
\* is written (ok) or an exception is caught and False returned
save_exclusions(m, excluded_repos, ok) ==
    LET m1 == get_exclusions(m)
        machines == [x \in DOMAIN m1.cache.machines \cup {Me} |->
                        IF x = Me THEN excluded_repos ELSE m1.cache.machines[x]]
        m2 == [m1 EXCEPT !.cache.machines = machines]
    IN  [m |-> IF ok THEN [m2 EXCEPT !.file = [state |-> "ok", machines |-> machines]]
               ELSE m2,
         ret |-> ok]

\* list.remove(x): the first occurrence
RemoveFirst(list, x) ==
    LET i == CHOOSE i \in 1..Len(list) :
                 list[i] = x /\ \A j \in 1..(i - 1) : list[j] # x
    IN  SubSeq(list, 1, i - 1) \o SubSeq(list, i + 1, Len(list))

\* add_exclusion without the test `if repo_name not in excluded_repos`
add_exclusion_always(m, repo_name, ok) ==
    save_exclusions(m, Append(get_excluded_repos(m), repo_name), ok)

add_exclusion(m, repo_name, ok) ==
    LET excluded_repos == get_excluded_repos(m)
    IN  IF repo_name \notin Range(excluded_repos)
        THEN save_exclusions(m, Append(excluded_repos, repo_name), ok)
        ELSE [m |-> get_exclusions(m), ret |-> TRUE]

remove_exclusion(m, repo_name, ok) ==
    LET excluded_repos == get_excluded_repos(m)
    IN  IF repo_name \in Range(excluded_repos)
        THEN save_exclusions(m, RemoveFirst(excluded_repos, repo_name), ok)
        ELSE [m |-> get_exclusions(m), ret |-> TRUE]

Call(op, name, ret) ==
    [op |-> op, name |-> name, ret |-> ret, before |-> get_excluded_repos(runner)]

AddExclusion ==
    /\ runner.mode = "exclude"
    /\ \E name \in ExNames, ok \in BOOLEAN :
          LET r == add_exclusion(runner, name, ok)
          IN  runner' = [r.m EXCEPT !.prev = runner.last, !.last = Call("add", name, r.ret)]
    /\ UNCHANGED <<workers, evq, world, gitlog, emits, stop_pc>>

RemoveExclusion ==
    /\ runner.mode = "exclude"
    /\ \E name \in ExNames, ok \in BOOLEAN :
          LET r == remove_exclusion(runner, name, ok)
          IN  runner' = [r.m EXCEPT !.prev = runner.last, !.last = Call("remove", name, r.ret)]
    /\ UNCHANGED <<workers, evq, world, gitlog, emits, stop_pc>>

IsExcluded ==
    /\ runner.mode = "exclude"
    /\ \E name \in ExNames :
          runner' = [get_exclusions(runner) EXCEPT
                        !.prev = runner.last,
                        !.last = Call("is_excluded", name, is_excluded_name(runner, name))]
    /\ UNCHANGED <<workers, evq, world, gitlog, emits, stop_pc>>

\* the lists the program itself writes: every name at most once
ExclusionSeqs ==
    UNION { { l \in [1..n -> ExNames] : \A i, j \in 1..n : i # j => l[i] # l[j] }
            : n \in 0..MaxRepos }

ExcludeFiles ==
    { [state |-> st, machines |-> NoMachines] : st \in {"absent", "corrupt"} }
    \cup { [state |-> "ok", machines |-> [x \in D |-> IF x = Me THEN l ELSE <<"secret-repo">>]]
             : D \in SUBSET Machines, l \in ExclusionSeqs }

InitExclude ==
    /\ \E file \in ExcludeFiles : runner = Manager(file)
    /\ workers = [t \in Tasks |-> NoTask]
    /\ evq = <<>>
    /\ world = [t \in Tasks |-> NoWorld]
    /\ gitlog = [t \in Tasks |-> <<>>]
    /\ emits = [t \in Tasks |-> <<>>]
    /\ stop_pc = [t \in Tasks |-> ""]

NextExclude ==
    \/ AddExclusion
    \/ RemoveExclusion
    \/ IsExcluded

SpecExclude == InitExclude /\ [][NextExclude]_vars

\* ================================================= the runner (GUI thread)
\* BaseRunner.__init__ / GitPushRunner.__init__, with the observations the
\* properties read:
\*   rpc       where the GUI thread is: in the event loop ("shown", "scanning",
\*             "timer_ops", "power_panel", "idle"), inside _run_operations
\*             ("dispatch"), inside a modal dialog's nested event loop ("gate",
\*             "manual"), inside subprocess.run of _on_conflict_detected
\*             ("conflict_launch"), or after closeEvent ("closed")
\*   exclusions  ExcludeManager's excluded_repos of this machine
\*   rowlog    per row, what the caller saw of it, in order
\*   results   per row, the result handed to _on_pull_finished / _on_push_finished
\*   skipped   results mapped to SKIPPED; notified: phase-complete notifications
\*   shutdown  the os.system commands that were run
Options == {"shutdown", "restart", "shutdown_cancel", "restart_cancel"}
Choices == {"push", "skip", "manual_push"}
TerminalCards == {"SUCCESS", "FAILED", "SKIPPED", "MISSING"}

NewRunner(m) ==
    [mode |-> m, rpc |-> "shown", repositories |-> <<>>, cards |-> <<>>, idx |-> 0,
     completed_count |-> 0, success_count |-> 0, failed_count |-> 0, total_count |-> 0,
     power_option |-> "None", is_closing |-> FALSE, close_timer |-> FALSE, boxes |-> 0,
     exclusions |-> {}, rowlog |-> <<>>, results |-> <<>>, skipped |-> 0, notified |-> 0,
     shutdown |-> <<>>, scan_status |-> "Scanning", selections |-> 0, dispatches |-> 0]

EventLoop == {"scanning", "timer_ops", "power_panel", "gate", "manual", "idle"}

ScannerOf(m) == IF m = "pull" THEN "pullscan" ELSE "pushscan"

\* BaseRunner.closeEvent: is_closing = True; self.worker has no `cancel`, so
\* no worker is stopped; waitForDone(3000); the window is gone.
closeEvent(r) == [r EXCEPT !.is_closing = TRUE, !.rpc = "closed"]

\* _on_scan_finished without the branch of the empty list
on_scan_finished_runs_anyway(r, result) ==
    IF r.is_closing THEN r
    ELSE [r EXCEPT !.repositories = result.repos,
                   !.cards = [i \in 1..Len(result.repos) |-> "PENDING"],
                   !.rowlog = [i \in 1..Len(result.repos) |-> <<>>],
                   !.results = [i \in 1..Len(result.repos) |-> JNull],
                   !.rpc = IF r.mode = "pull" THEN "timer_ops" ELSE "power_panel",
                   !.close_timer = FALSE,
                   !.scan_status = IF result.repos = <<>>
                                   THEN "All repositories up to date" ELSE "Found"]

\* _on_scan_finished of both runners
on_scan_finished(r, result) ==
    IF r.is_closing THEN r
    ELSE [r EXCEPT !.repositories = result.repos,
                   !.cards = [i \in 1..Len(result.repos) |-> "PENDING"],
                   !.rowlog = [i \in 1..Len(result.repos) |-> <<>>],
                   !.results = [i \in 1..Len(result.repos) |-> JNull],
                   !.rpc = IF result.repos = <<>> THEN "idle"
                           ELSE IF r.mode = "pull" THEN "timer_ops" ELSE "power_panel",
                   !.close_timer = (result.repos = <<>>),
                   !.scan_status = IF result.repos = <<>>
                                   THEN "All repositories up to date" ELSE "Found"]

\* _handle_completion that runs the command for the cancelled options too
handle_completion_any_option(r) ==
    LET all_successful == r.failed_count = 0
        n == [r EXCEPT !.notified = @ + 1]
    IN  IF all_successful THEN
            [closeEvent(n) EXCEPT
                !.shutdown = Append(@, IF r.power_option = "shutdown"
                                       THEN "shutdown /s /t 5" ELSE "shutdown /r /t 5")]
        ELSE [n EXCEPT !.close_timer = TRUE]

\* _handle_completion that does not look at failed_count
handle_completion_despite_failures(r) ==
    LET all_successful == TRUE
        n == [r EXCEPT !.notified = @ + 1]
    IN  IF all_successful /\ r.power_option \in {"shutdown", "restart"} THEN
            [closeEvent(n) EXCEPT
                !.shutdown = Append(@, IF r.power_option = "shutdown"
                                       THEN "shutdown /s /t 5" ELSE "shutdown /r /t 5")]
        ELSE [n EXCEPT !.close_timer = TRUE]

\* GitPushRunner._handle_completion (testing = False)
handle_completion(r) ==
    LET all_successful == r.failed_count = 0
        n == [r EXCEPT !.notified = @ + 1]
    IN  IF all_successful /\ r.power_option \in {"shutdown", "restart"} THEN
            [closeEvent(n) EXCEPT
                !.shutdown = Append(@, IF r.power_option = "shutdown"
                                       THEN "shutdown /s /t 5" ELSE "shutdown /r /t 5")]
        ELSE [n EXCEPT !.close_timer = TRUE]

\* A pull handler that takes CONFLICT for a success
on_pull_finished_conflict_ok(r, row, result) ==
    LET status == IF result.status \in {"SUCCESS", "CONFLICT"} THEN "SUCCESS" ELSE "FAILED"
        r1 == [r EXCEPT !.cards[row] = status,
                        !.success_count = IF status = "SUCCESS" THEN @ + 1 ELSE @,
                        !.failed_count = IF status = "SUCCESS" THEN @ ELSE @ + 1,
                        !.completed_count = @ + 1,
                        !.rowlog[row] = Append(@, status),
                        !.results[row] = result]
    IN  IF r1.completed_count >= r1.total_count
        THEN [r1 EXCEPT !.close_timer = TRUE, !.notified = @ + 1]
        ELSE r1

\* GitPullRunner._on_pull_finished
on_pull_finished(r, row, result) ==
    LET status == IF result.status = "SUCCESS" THEN "SUCCESS" ELSE "FAILED"
        r1 == [r EXCEPT !.cards[row] = status,
                        !.success_count = IF status = "SUCCESS" THEN @ + 1 ELSE @,
                        !.failed_count = IF status = "SUCCESS" THEN @ ELSE @ + 1,
                        !.completed_count = @ + 1,
                        !.rowlog[row] = Append(@, status),
                        !.results[row] = result]
    IN  IF r1.completed_count >= r1.total_count
        THEN [r1 EXCEPT !.close_timer = TRUE, !.notified = @ + 1]
        ELSE r1

\* A push result counted as a failure although its status is SKIPPED
on_push_finished_skip_fails(r, row, result) ==
    LET status == IF result.status = "SUCCESS" THEN "SUCCESS"
                  ELSE IF result.status \in {"SKIPPED", "CANCELLED"} THEN "SKIPPED"
                  ELSE "FAILED"
        r1 == [r EXCEPT !.cards[row] = status,
                        !.success_count = IF status = "SUCCESS" THEN @ + 1 ELSE @,
                        !.failed_count = IF status = "SUCCESS" THEN @ ELSE @ + 1,
                        !.skipped = IF status = "SKIPPED" THEN @ + 1 ELSE @,
                        !.completed_count = @ + 1,
                        !.rowlog[row] = Append(@, status),
                        !.results[row] = result]
    IN  IF r1.completed_count >= r1.total_count THEN handle_completion(r1) ELSE r1

\* GitPushRunner._on_push_finished
on_push_finished(r, row, result) ==
    LET status == IF result.status = "SUCCESS" THEN "SUCCESS"
                  ELSE IF result.status \in {"SKIPPED", "CANCELLED"} THEN "SKIPPED"
                  ELSE "FAILED"
        r1 == [r EXCEPT !.cards[row] = status,
                        !.success_count = IF status = "SUCCESS" THEN @ + 1 ELSE @,
                        !.failed_count = IF status = "FAILED" THEN @ + 1 ELSE @,
                        !.skipped = IF status = "SKIPPED" THEN @ + 1 ELSE @,
                        !.completed_count = @ + 1,
                        !.rowlog[row] = Append(@, status),
                        !.results[row] = result]
    IN  IF r1.completed_count >= r1.total_count THEN handle_completion(r1) ELSE r1

\* the `for` of _run_operations moves on to the next row, or returns to the
\* event loop after the last one
NextRow(r) ==
    [r EXCEPT !.idx = @ + 1,
              !.rpc = IF r.idx < r.total_count THEN "dispatch"
                      ELSE IF r.is_closing THEN "closed" ELSE "idle"]

\* showEvent -> _start_scan: the scanner is handed to the thread pool
StartScan ==
    /\ runner.rpc = "shown"
    /\ runner' = [runner EXCEPT !.rpc = "scanning"]
    /\ workers' = [workers EXCEPT ![0] = NewWorker(ScannerOf(runner.mode), RepoOf("GitHub"))]
    /\ UNCHANGED <<evq, world, gitlog, emits, stop_pc>>

\* the queued signal at the head of the GUI thread's event queue
Pending(sig) ==
    /\ runner.rpc \in EventLoop
    /\ evq # <<>>
    /\ Head(evq).sig = sig

\* _on_scan_error (base_runner.py 589-599): the status label, nothing else
on_scan_error(r) == IF r.is_closing THEN r ELSE [r EXCEPT !.scan_status = "Scan failed"]

\* the scanner's progress and error signals only change labels
OnLabelSignal ==
    /\ Pending("progress") \/ Pending("error")
    /\ runner' = IF Head(evq).sig = "error" THEN on_scan_error(runner) ELSE runner
    /\ evq' = Tail(evq)
    /\ UNCHANGED <<workers, world, gitlog, emits, stop_pc>>

OnScanFinished ==
    /\ Pending("finished")
    /\ Head(evq).task = 0
    /\ runner' = on_scan_finished(runner, Head(evq).payload)
    /\ evq' = Tail(evq)
    /\ UNCHANGED <<workers, world, gitlog, emits, stop_pc>>

\* _on_button_clicked without `if widget.power_option is not None: return`
on_button_clicked_again(r, option) ==
    [r EXCEPT !.power_option = option, !.selections = @ + 1, !.rpc = "timer_ops"]

\* power_options_panel._on_button_clicked: the first selection is kept and
\* emitted; GitPushRunner._on_power_option_selected, its slot, stores it and
\* arms the OPERATIONS_START_DELAY timer of _run_operations
on_button_clicked(r, option) ==
    IF r.power_option # "None" THEN r
    ELSE [r EXCEPT !.power_option = option, !.selections = @ + 1, !.rpc = "timer_ops"]

\* a click on one of the four buttons (they are disabled after the selection)
OnPowerOptionSelected ==
    /\ runner.rpc = "power_panel"
    /\ \E option \in Options : runner' = on_button_clicked(runner, option)
    /\ UNCHANGED <<workers, evq, world, gitlog, emits, stop_pc>>

\* _auto_select_default: the countdown's single-shot timer fires, whenever the
\* GUI thread is in an event loop after the panel was shown; `default` is the
\* configured default_power_option
AutoSelectDefault ==
    /\ runner.mode = "push"
    /\ runner.scan_status = "Found"
    /\ runner.rpc \in EventLoop
    /\ \E default \in Options : runner' = on_button_clicked(runner, default)
    /\ UNCHANGED <<workers, evq, world, gitlog, emits, stop_pc>>

\* _run_operations up to its loop (the OPERATIONS_START_DELAY timer fires)
RunOperations ==
    /\ runner.rpc = "timer_ops"
    /\ runner' = [runner EXCEPT !.completed_count = 0, !.success_count = 0,
                                !.failed_count = 0,
                                !.total_count = Len(runner.repositories),
                                !.idx = 1, !.rpc = "dispatch",
                                !.dispatches = @ + 1]
    /\ UNCHANGED <<workers, evq, world, gitlog, emits, stop_pc>>

\* A loop that ends at the first missing directory (`break`)
RowMissingAborts ==
    /\ runner.rpc = "dispatch"
    /\ LET row == runner.idx IN
          runner' = [runner EXCEPT !.cards[row] = "MISSING",
                                   !.completed_count = @ + 1,
                                   !.failed_count = @ + 1,
                                   !.rowlog[row] = Append(@, "MISSING"),
                                   !.rpc = "idle"]
    /\ UNCHANGED <<workers, evq, world, gitlog, emits, stop_pc>>

\* loop body, the directory or its .git is gone: counted here, and `continue`
RowMissing ==
    /\ runner.rpc = "dispatch"
    /\ LET row == runner.idx IN
          runner' = NextRow([runner EXCEPT !.cards[row] = "MISSING",
                                           !.completed_count = @ + 1,
                                           !.failed_count = @ + 1,
                                           !.rowlog[row] = Append(@, "MISSING")])
    /\ UNCHANGED <<workers, evq, world, gitlog, emits, stop_pc>>

\* _execute_pull / the tail of _execute_push: threadpool.start(worker)
StartWorker(r, row) ==
    /\ workers' = [workers EXCEPT ![row] =
                      NewWorker(r.mode, [name |-> r.repositories[row].name,
                                         path |-> r.repositories[row].path])]
    /\ runner' = NextRow([r EXCEPT !.cards[row] = "QUEUED",
                                   !.rowlog[row] = Append(@, "start")])

ExecutePull ==
    /\ runner.rpc = "dispatch"
    /\ runner.mode = "pull"
    /\ StartWorker(runner, runner.idx)
    /\ UNCHANGED <<evq, world, gitlog, emits, stop_pc>>

\* ExcludeManager.is_excluded(Path(repo_path).name)
is_excluded(r, repo_path) == repo_path[Len(repo_path)] \in r.exclusions

\* _execute_push for a repository that is not excluded
ExecutePush ==
    /\ runner.rpc = "dispatch"
    /\ runner.mode = "push"
    /\ ~is_excluded(runner, runner.repositories[runner.idx].path)
    /\ StartWorker(runner, runner.idx)
    /\ UNCHANGED <<evq, world, gitlog, emits, stop_pc>>

\* _execute_push for an excluded repository: dialog.exec() inside the loop
OpenGate ==
    /\ runner.rpc = "dispatch"
    /\ runner.mode = "push"
    /\ is_excluded(runner, runner.repositories[runner.idx].path)
    /\ runner' = [runner EXCEPT !.cards[runner.idx] = "QUEUED", !.rpc = "gate",
                                !.rowlog[runner.idx] = Append(@, "gate")]
    /\ UNCHANGED <<workers, evq, world, gitlog, emits, stop_pc>>

Skipped(r, row, message) ==
    PushResult("SKIPPED", r.repositories[row].name, r.repositories[row].path,
               message, JNull, TRUE)

\* How the dialog ends: a click on one of the three buttons, the timeout
\* (exclude_confirmation_timeout, 5 s by default), or Esc (QDialog.reject)
GateOutcomes == Choices \cup {"timeout", "rejected"}

\* A timeout that chooses "push"
auto_push(user_choice) == IF user_choice = "None" THEN "push" ELSE user_choice

\* ExcludeConfirmationDialog._auto_skip
auto_skip(user_choice) == IF user_choice = "None" THEN "skip" ELSE user_choice

\* ExcludeConfirmationDialog.get_choice
get_choice(user_choice) == IF user_choice = "None" THEN "skip" ELSE user_choice

\* user_choice when dialog.exec() returns
UserChoice(outcome) ==
    IF outcome \in Choices THEN outcome
    ELSE IF outcome = "timeout" THEN auto_skip("None")
    ELSE "None"

\* dialog.exec() returns; the rest of _execute_push
GateDecide ==
    /\ runner.rpc = "gate"
    /\ \E outcome \in GateOutcomes :
          LET row == runner.idx
              choice == get_choice(UserChoice(outcome))
              r == [runner EXCEPT !.rowlog[row] = Append(@, outcome)]
          IN
          IF choice = "skip" THEN
              /\ runner' = NextRow(on_push_finished(r, row,
                               Skipped(r, row, <<"Skipped (excluded repository)">>)))
              /\ UNCHANGED workers
          ELSE IF choice = "manual_push" THEN
              /\ runner' = [r EXCEPT !.rpc = "manual"]
              /\ UNCHANGED workers
          ELSE StartWorker(r, row)
    /\ UNCHANGED <<evq, world, gitlog, emits, stop_pc>>

\* _show_manual_push_dialog after msg_box.exec(), and the rest of _execute_push
ManualDialogClosed ==
    /\ runner.rpc = "manual"
    /\ LET row == runner.idx
           r1 == IF runner.completed_count >= runner.total_count
                 THEN handle_completion(runner) ELSE runner
       IN  runner' = NextRow(on_push_finished(r1, row,
                          Skipped(r1, row, <<"User chose manual push">>)))
    /\ UNCHANGED <<workers, evq, world, gitlog, emits, stop_pc>>

OnPullFinished ==
    /\ Pending("finished")
    /\ Head(evq).task # 0
    /\ runner.mode = "pull"
    /\ runner' = on_pull_finished(runner, Head(evq).task, Head(evq).payload)
    /\ evq' = Tail(evq)
    /\ UNCHANGED <<workers, world, gitlog, emits, stop_pc>>

\* Two pending push results whose handlers both read the counters before
\* either writes them: the first update is lost
OnPushFinishedRacy ==
    /\ Pending("finished")
    /\ Head(evq).task # 0
    /\ runner.mode = "push"
    /\ IF Len(evq) >= 2 /\ evq[2].sig = "finished" /\ evq[2].task # 0 THEN
          LET t1 == evq[1].task
              r1 == on_push_finished(runner, t1, evq[1].payload)
              r2 == on_push_finished(runner, evq[2].task, evq[2].payload)
          IN  /\ runner' = [r2 EXCEPT !.cards[t1] = r1.cards[t1],
                                      !.rowlog[t1] = r1.rowlog[t1],
                                      !.results[t1] = r1.results[t1]]
              /\ evq' = Tail(Tail(evq))
       ELSE
          /\ runner' = on_push_finished(runner, Head(evq).task, Head(evq).payload)
          /\ evq' = Tail(evq)
    /\ UNCHANGED <<workers, world, gitlog, emits, stop_pc>>

OnPushFinished ==
    /\ Pending("finished")
    /\ Head(evq).task # 0
    /\ runner.mode = "push"
    /\ runner' = on_push_finished(runner, Head(evq).task, Head(evq).payload)
    /\ evq' = Tail(evq)
    /\ UNCHANGED <<workers, world, gitlog, emits, stop_pc>>

\* _on_conflict_detected up to subprocess.run(..., timeout=10), in the GUI thread
OnConflictDetected ==
    /\ Pending("conflict_detected")
    /\ runner' = [runner EXCEPT !.rpc = "conflict_launch",
                                !.rowlog[Head(evq).task] = Append(@, "conflict")]
    /\ evq' = Tail(evq)
    /\ UNCHANGED <<workers, world, gitlog, emits, stop_pc>>

\* subprocess.run returned (QMessageBox.information opens) or raised (pass)
ConflictLaunched ==
    /\ runner.rpc = "conflict_launch"
    /\ \E raised \in BOOLEAN :
          runner' = [runner EXCEPT !.rpc = "idle",
                                   !.boxes = IF raised THEN @ ELSE @ + 1]
    /\ UNCHANGED <<workers, evq, world, gitlog, emits, stop_pc>>

\* the user closes the message box
BoxClosed ==
    /\ runner.rpc \in EventLoop
    /\ runner.boxes > 0
    /\ runner' = [runner EXCEPT !.boxes = @ - 1]
    /\ UNCHANGED <<workers, evq, world, gitlog, emits, stop_pc>>

\* QTimer.singleShot(AUTO_CLOSE_DELAY or AUTO_CLOSE_NO_REPOS_DELAY, self.close)
CloseTimer ==
    /\ runner.rpc \in EventLoop
    /\ runner.close_timer
    /\ runner' = closeEvent([runner EXCEPT !.close_timer = FALSE])
    /\ UNCHANGED <<workers, evq, world, gitlog, emits, stop_pc>>

\* The user closes the window while the GUI thread is in its event loop (a
\* modal dialog takes the input of the window under it)
UserClose ==
    /\ runner.rpc \in {"scanning", "timer_ops", "power_panel", "idle"}
    /\ runner' = closeEvent(runner)
    /\ UNCHANGED <<workers, evq, world, gitlog, emits, stop_pc>>

\* ------------------------------------------------ the workers of the pool
ConflictWorld ==
    [BasePullWorld EXCEPT !.pull1 = 1, !.out1 = <<"would be overwritten">>, !.pop = 1,
                          !.status = <<[xy |-> "UU", file |-> "config.json"]>>]

PoolWorlds(k) ==
    IF k = "pull" THEN
        { BasePullWorld, [BasePullWorld EXCEPT !.exists = FALSE, !.dotgit = FALSE],
          NoGitPullWorld,
          [BasePullWorld EXCEPT !.pull1 = 1, !.out1 = <<"fatal: unable to access">>],
          ConflictWorld }
    ELSE { BasePushWorld, [BasePushWorld EXCEPT !.exists = FALSE, !.dotgit = FALSE],
           [BasePushWorld EXCEPT !.push = 1, !.pushout = <<"! [rejected] main (fetch first)">>] }

\* a failing transport is tried on the scans and on the base world of a pull
PoolTransports(k, w) ==
    { Transport("ok", 0) }
    \cup { Transport(x, 0) : x \in IF w = BasePullWorld \/ k \in ScanKinds
                                  THEN {"timeout", "malformed"} ELSE {} }

PoolCountRepositories(t) == \E w \in PoolScanWorlds : CountStep(t, w)

PoolRunPowershell(t) ==
    /\ workers[t].pc = "exec"
    /\ \E w \in IF workers[t].kind \in ScanKinds THEN {world[t]} ELSE PoolWorlds(workers[t].kind) :
          \E tr \in PoolTransports(workers[t].kind, w) :
              run_powershell(t, w, tr)

\* the exclusion list on disk when the runner starts (only push reads it)
ExclusionLists(m) ==
    IF m = "push" THEN SUBSET { RepoNameSeq[i] : i \in 1..MaxRepos } ELSE { {} }

Init ==
    /\ \E m \in OpKinds : \E ex \in ExclusionLists(m) :
          runner = [NewRunner(m) EXCEPT !.exclusions = ex]
    /\ workers = [t \in Tasks |-> NoTask]
    /\ evq = <<>>
    /\ world = [t \in Tasks |-> NoWorld]
    /\ gitlog = [t \in Tasks |-> <<>>]
    /\ emits = [t \in Tasks |-> <<>>]
    /\ stop_pc = [t \in Tasks |-> ""]

WorkerStep ==
    \E t \in Tasks :
          \/ RunBegin(t)
          \/ PoolRunPowershell(t)
          \/ AfterExec(t)
          \/ ParseResult(t)
          \/ EmitError(t)
          \/ EmitFinished(t)
          \/ PoolCountRepositories(t)
          \/ EmitProgress(t)

Next ==
    \/ WorkerStep
    \/ StartScan
    \/ OnLabelSignal
    \/ OnScanFinished
    \/ OnPowerOptionSelected
    \/ AutoSelectDefault
    \/ RunOperations
    \/ RowMissing
    \/ ExecutePull
    \/ ExecutePush
    \/ OpenGate
    \/ GateDecide
    \/ ManualDialogClosed
    \/ OnPullFinished
    \/ OnPushFinished
    \/ OnConflictDetected
    \/ ConflictLaunched
    \/ BoxClosed
    \/ CloseTimer

Spec == Init /\ [][Next]_vars

\* ============================== the same run, which the user may close early
NextClose ==
    \/ Next
    \/ UserClose

SpecClose == Init /\ [][NextClose]_vars

\* ================================================================== claims
Count(seq, x) == Cardinality({i \in 1..Len(seq) : seq[i] = x})

\* the script of task t ran to its end and pwsh exited with code 0
ScriptCompleted(t) ==
    /\ workers[t].proc.kind = "completed"
    /\ workers[t].proc.returncode = 0

\* ... and its output reached the parser unchanged
OutputIntact(t) ==
    /\ ScriptCompleted(t)
    /\ workers[t].proc.stdout.t = "json"
    /\ workers[t].proc.stdout.v.t = "dict"
    /\ workers[t].proc.stdout.v = Script(workers[t].kind, world[t], workers[t].repo.name).stdout

\* the events by which pull task t handed over its result
FinishedEvents(k) ==
    { i \in 1..Len(evq) : evq[i].sig = "finished" /\ workers[evq[i].task].kind = k }

\* C2: a task whose cancellation flag is never set emits exactly one
\* 'finished' result in one run(), on every path (parsed output, empty
\* output, non-zero exit code, timeout, malformed JSON, any other exception);
\* no task ever emits two.
C2_ExactlyOneFinished ==
    \A t \in Tasks :
        /\ Count(emits[t], "finished") <= 1
        /\ (workers[t].pc = "done" /\ workers[t].is_running)
              => Count(emits[t], "finished") = 1

C2_Witness ==
    \E t \in Tasks :
        /\ workers[t].pc = "done" /\ workers[t].is_running
        /\ workers[t].proc.kind = "completed" /\ workers[t].proc.stdout.t = "malformed"
        /\ emits[t] = <<"error", "finished">>

\* C3: a task whose stop() was called before run() started or before its
\* command returned emits neither a 'finished' result nor an error event,
\* also when the command ends by timeout or by an exception.
BeforeReturn == {"queued", "progress", "begin", "exec"}

C3_NoEmissionAfterStop ==
    \A t \in Tasks :
        stop_pc[t] \in BeforeReturn
            => Count(emits[t], "finished") = 0 /\ Count(emits[t], "error") = 0

C3_Witness ==
    \E t \in Tasks :
        /\ stop_pc[t] = "exec"
        /\ workers[t].pc = "done"
        /\ workers[t].proc.kind = "TimeoutExpired"
        /\ emits[t] = <<>>

\* C7: the first git pull decides the branch of the pull script: exit code 0
\* gives SUCCESS and no stash; a failure without a local-change marker gives
\* ERROR with the raw pull output as message and no stash; a stash is
\* attempted if and only if the first pull failed with a marker in its output.
C7_FirstPullDecides ==
    /\ \A t \in Tasks :
          (workers[t].kind = "pull" /\ ScriptCompleted(t) /\ gitlog[t] # <<>>) =>
              ((Count(gitlog[t], "stash push") > 0)
                  <=> (world[t].pull1 # 0 /\ Matches(world[t].out1, LocalChangeMarkers)))
    /\ \A i \in FinishedEvents("pull") :
          LET t == evq[i].task
              r == evq[i].payload
          IN  (OutputIntact(t) /\ gitlog[t] # <<>>) =>
                /\ world[t].pull1 = 0 =>
                      r.status = "SUCCESS" /\ gitlog[t] = <<"pull">>
                /\ (world[t].pull1 # 0 /\ ~Matches(world[t].out1, LocalChangeMarkers)) =>
                      /\ r.status = "ERROR"
                      /\ r.error_message = world[t].out1
                      /\ gitlog[t] = <<"pull">>

C7_Witness ==
    \E i \in FinishedEvents("pull") :
        /\ OutputIntact(evq[i].task)
        /\ world[evq[i].task].pull1 # 0
        /\ world[evq[i].task].out1 = <<"fatal: unable to access">>
        /\ evq[i].payload.status = "ERROR"
        /\ evq[i].payload.error_message = <<"fatal: unable to access">>
        /\ gitlog[evq[i].task] = <<"pull">>

\* C8: on the stash path the steps run in the order stash push, pull, stash
\* pop, each only after the one before succeeded; a stash failure ends in
\* ERROR without a second pull, a failed second pull in ERROR ("Pull failed
\* after stashing") without a pop, a successful pop in SUCCESS; git pull runs
\* at most twice, stash push and stash pop at most once.
IsPrefix(a, b) == Len(a) <= Len(b) /\ a = SubSeq(b, 1, Len(a))

PullOrder == <<"pull", "stash push", "pull", "stash pop", "status", "diff">>

C8_StashPathInOrder ==
    /\ \A t \in Tasks :
          workers[t].kind = "pull" =>
            /\ IsPrefix(gitlog[t], PullOrder)
            /\ Count(gitlog[t], "pull") <= 2
            /\ Count(gitlog[t], "stash push") <= 1
            /\ Count(gitlog[t], "stash pop") <= 1
            /\ Count(gitlog[t], "pull") = 2 => world[t].stash = 0
            /\ Count(gitlog[t], "stash pop") = 1 => world[t].stash = 0 /\ world[t].pull2 = 0
    /\ \A i \in FinishedEvents("pull") :
          LET t == evq[i].task
              r == evq[i].payload
          IN  (OutputIntact(t) /\ Count(gitlog[t], "stash push") = 1) =>
                /\ world[t].stash # 0 =>
                      r.status = "ERROR" /\ gitlog[t] = <<"pull", "stash push">>
                /\ (world[t].stash = 0 /\ world[t].pull2 # 0) =>
                      /\ r.status = "ERROR"
                      /\ Head(r.error_message) = "Pull failed after stashing: "
                      /\ gitlog[t] = <<"pull", "stash push", "pull">>
                /\ (world[t].stash = 0 /\ world[t].pull2 = 0 /\ world[t].pop = 0) =>
                      /\ r.status = "SUCCESS"
                      /\ gitlog[t] = <<"pull", "stash push", "pull", "stash pop">>

C8_Witness ==
    \E i \in FinishedEvents("pull") :
        /\ OutputIntact(evq[i].task)
        /\ world[evq[i].task].pull2 # 0
        /\ gitlog[evq[i].task] = <<"pull", "stash push", "pull">>
        /\ evq[i].payload.status = "ERROR"

\* C9: when git stash pop fails after the second pull, the result is CONFLICT
\* if and only if git status --porcelain shows UU, AA or DD, and then
\* conflict_files is the list of the conflicted file names; otherwise it is
\* ERROR ("Failed to restore stash") with an empty conflict_files.
PopFailed(t) ==
    /\ workers[t].kind = "pull"
    /\ OutputIntact(t)
    /\ Count(gitlog[t], "stash pop") = 1
    /\ world[t].pop # 0

C9_ConflictFilesList ==
    \A i \in FinishedEvents("pull") :
        LET t == evq[i].task
            r == evq[i].payload
        IN  PopFailed(t) =>
              /\ (r.status = "CONFLICT") <=> HasConflictMarker(world[t].status)
              /\ r.status = "CONFLICT" =>
                    r.conflict_files = JList(GitDiffUnmerged(world[t].status))
              /\ r.status # "CONFLICT" =>
                    /\ r.status = "ERROR"
                    /\ Head(r.error_message) = "Failed to restore stash: "
                    /\ r.conflict_files = JList(<<>>)

\* the part of C9 the code keeps: the status, and the empty list on ERROR
C9_ConflictStatus ==
    \A i \in FinishedEvents("pull") :
        LET t == evq[i].task
            r == evq[i].payload
        IN  PopFailed(t) =>
              /\ (r.status = "CONFLICT") <=> HasConflictMarker(world[t].status)
              /\ r.status # "CONFLICT" =>
                    r.status = "ERROR" /\ r.conflict_files = JList(<<>>)

C9_Witness ==
    \E i \in FinishedEvents("pull") :
        /\ PopFailed(evq[i].task)
        /\ world[evq[i].task].status = <<[xy |-> "UU", file |-> "config.json"]>>
        /\ evq[i].payload.status = "CONFLICT"
        /\ evq[i].payload.conflict_files = JStr(<<"config.json", "\r">>)

\* ------------------------------------------------- the runner's properties
RepoRows == 1..Len(runner.repositories)

Terminals(row) ==
    Cardinality({ i \in 1..Len(runner.rowlog[row]) : runner.rowlog[row][i] \in TerminalCards })

AllTerminal ==
    /\ runner.repositories # <<>>
    /\ \A row \in RepoRows : runner.cards[row] \in TerminalCards

\* no worker is queued or running and no signal waits in the event queue
PoolIdle ==
    /\ evq = <<>>
    /\ \A t \in Tasks : workers[t].pc \in {"none", "done"}

C4_PhaseCompleteNotified ==
    /\ runner.notified <= 1
    /\ runner.notified = 1 =>
          AllTerminal /\ runner.completed_count = Len(runner.repositories)
    /\ (AllTerminal /\ runner.rpc \in EventLoop \cup {"closed"}) => runner.notified = 1

\* every repository of the phase was MISSING in _run_operations: all are
\* terminal, nothing is in flight, and phase-complete was never notified
C4_Witness ==
    /\ AllTerminal
    /\ \A row \in RepoRows : runner.cards[row] = "MISSING"
    /\ runner.completed_count = runner.total_count
    /\ runner.rpc = "idle"
    /\ PoolIdle
    /\ runner.notified = 0
    /\ ~runner.close_timer

\* C5: failures are contained per repository: whatever the other
\* repositories of the phase end in, every repository is run and reaches its
\* own terminal result, and the caller receives exactly one terminal result
\* per repository.
C5_OneTerminalResultPerRepository ==
    \A row \in RepoRows :
        /\ Terminals(row) <= 1
        /\ (runner.rpc \in {"idle", "closed"} /\ PoolIdle) =>
              /\ Terminals(row) = 1
              /\ runner.cards[row] \in TerminalCards
        /\ (workers[row].kind # "none" /\ workers[row].pc = "done") =>
              Count(emits[row], "finished") = 1

C5_Witness ==
    /\ runner.mode = "pull"
    /\ Len(runner.repositories) = 2
    /\ runner.rpc = "closed"
    /\ PoolIdle
    /\ workers[1].proc.kind = "TimeoutExpired"
    /\ runner.rowlog[1] = <<"start", "FAILED">>
    /\ runner.rowlog[2] = <<"start", "SUCCESS">>

\* C6: processing never blocks on one repository: while a repository waits
\* in its exclusion-confirmation gate or in conflict handling, the remaining
\* repositories can be dispatched and the queued results can be aggregated.
Dispatch == RowMissing \/ ExecutePull \/ ExecutePush \/ OpenGate

Aggregate == OnPullFinished \/ OnPushFinished

InGate == runner.rpc = "gate"

InConflictHandling == runner.rpc = "conflict_launch" \/ runner.boxes > 0

C6_NeverBlocksOnOneRepository ==
    /\ (InGate /\ runner.idx < runner.total_count) => ENABLED Dispatch
    /\ ((InGate \/ InConflictHandling) /\ evq # <<>> /\ Head(evq).sig = "finished")
          => ENABLED Aggregate

\* the gate of row 1 is open, row 2 is still PENDING and cannot be dispatched
C6_Witness ==
    /\ InGate
    /\ runner.idx = 1
    /\ runner.total_count = 2
    /\ runner.cards[2] = "PENDING"
    /\ ~ENABLED Dispatch

\* C10: CONFLICT is terminal and never auto-resolved: after a pull ended in
\* CONFLICT no further git command runs for the repository and it is not
\* retried; the conflict notification reaches the caller before the
\* repository's terminal result, and the repository is counted as failed.
ConflictRow(row) ==
    /\ workers[row].kind = "pull"
    /\ workers[row].res # JNull
    /\ workers[row].res.status = "CONFLICT"

CardCount(cs) == Cardinality({ row \in RepoRows : runner.cards[row] \in cs })

C10_ConflictIsTerminal ==
    /\ \A row \in RepoRows :
          ConflictRow(row) =>
            /\ gitlog[row] = PullOrder
            /\ IsPrefix(emits[row], <<"conflict_detected", "finished">>)
            /\ IsPrefix(runner.rowlog[row], <<"start", "conflict", "FAILED">>)
            /\ runner.cards[row] \in {"QUEUED", "FAILED"}
    /\ runner.mode = "pull" =>
          /\ runner.success_count = CardCount({"SUCCESS"})
          /\ runner.failed_count = CardCount({"FAILED", "MISSING"})

C10_Witness ==
    \E row \in RepoRows :
        /\ ConflictRow(row)
        /\ runner.rowlog[row] = <<"start", "conflict", "FAILED">>
        /\ runner.failed_count = 1
        /\ runner.success_count = 1
        /\ runner.rpc = "closed"

\* C11: a repository whose directory or whose .git is absent when its pull
\* or push starts ends in MISSING: no git command runs for it, it is not
\* retried, and it is counted as completed and failed.
AbsentAtStart(row) ==
    /\ workers[row].kind \in OpKinds
    /\ OutputIntact(row)
    /\ workers[row].res # JNull
    /\ ~world[row].exists \/ ~world[row].dotgit

C11_AbsentEndsMissing ==
    /\ \A row \in RepoRows :
          /\ runner.cards[row] = "MISSING" =>
                /\ workers[row].kind = "none"
                /\ gitlog[row] = <<>>
                /\ runner.rowlog[row] = <<"MISSING">>
          /\ AbsentAtStart(row) =>
                /\ workers[row].res.status = "MISSING"
                /\ gitlog[row] = <<>>
                /\ Count(runner.rowlog[row], "start") = 1
    /\ runner.failed_count >= CardCount({"MISSING"})
    /\ runner.completed_count >= CardCount({"MISSING"})

\* .git vanished after the runner's test: the script finds the directory,
\* runs git pull and reports ERROR
C11_Witness ==
    \E row \in RepoRows :
        /\ AbsentAtStart(row)
        /\ world[row].exists
        /\ workers[row].res.status = "ERROR"
        /\ gitlog[row] = <<"pull">>
        /\ runner.cards[row] = "FAILED"

\* C12: a push for a repository the exclusion list (keyed by repository
\* name) does not hold goes to staging without a gate; for an excluded one the
\* gate is shown and decides: 'push' continues to staging, 'skip' and 'manual'
\* end in SKIPPED with is_excluded and no git command; without a decision
\* before the timeout the outcome is 'skip'.
Dispatched(row) == runner.rowlog[row] # <<>> /\ runner.cards[row] # "MISSING"

Decision(row) == IF Len(runner.rowlog[row]) >= 2 THEN runner.rowlog[row][2] ELSE "None"

C12_ExclusionGateDecides ==
    runner.mode = "push" =>
      \A row \in RepoRows :
        LET name == runner.repositories[row].name
            log == runner.rowlog[row]
        IN  Dispatched(row) =>
              /\ name \notin runner.exclusions => Head(log) = "start"
              /\ name \in runner.exclusions =>
                    /\ Head(log) = "gate"
                    /\ Decision(row) = "push" => IsPrefix(<<"gate", "push", "start">>, log)
                    /\ Decision(row) \in {"skip", "manual_push", "timeout", "rejected"} =>
                          /\ IsPrefix(log, <<"gate", Decision(row), "SKIPPED">>)
                          /\ workers[row].kind = "none"
                          /\ gitlog[row] = <<>>
                          /\ runner.cards[row] \in {"QUEUED", "SKIPPED"}
                          /\ runner.results[row] # JNull =>
                                /\ runner.results[row].status = "SKIPPED"
                                /\ runner.results[row].is_excluded

\* secret gate of row 1 timed out, row 2 (not excluded) was pushed
C12_Witness ==
    /\ runner.mode = "push"
    /\ Len(runner.repositories) = 2
    /\ runner.exclusions = {runner.repositories[1].name}
    /\ runner.rowlog[1] = <<"gate", "timeout", "SKIPPED">>
    /\ runner.results[1].is_excluded
    /\ runner.rowlog[2] = <<"start", "SUCCESS">>
    /\ gitlog[2] = <<"status", "add", "status", "commit", "push">>

\* C13: when git status --porcelain is empty at staging the push ends at
\* once in SUCCESS with the message "No changes to commit"; git add, git
\* commit and git push are not run.
PushRan(t) ==
    /\ workers[t].kind = "push"
    /\ OutputIntact(t)
    /\ world[t].exists /\ ~world[t].throws

C13_CleanShortCircuits ==
    \A i \in FinishedEvents("push") :
        LET t == evq[i].task
            r == evq[i].payload
        IN  (PushRan(t) /\ world[t].clean) =>
              /\ r.status = "SUCCESS"
              /\ r.error_message = <<"No changes to commit">>
              /\ gitlog[t] = <<"status">>

C13_Witness ==
    \E i \in FinishedEvents("push") :
        /\ PushRan(evq[i].task)
        /\ world[evq[i].task].clean
        /\ evq[i].payload.status = "SUCCESS"
        /\ evq[i].payload.error_message = <<"No changes to commit">>
        /\ gitlog[evq[i].task] = <<"status">>

\* C14: with changes the push runs stage, commit, push in that order, each
\* only after the one before succeeded: a staging failure ends in ERROR
\* without a commit, a commit failure in ERROR without a push, a push failure
\* in ERROR whose message holds the raw push output; SUCCESS is reported only
\* after git push exited with code 0.
PushOrder == <<"status", "add", "status", "commit", "push">>

IsInfix(a, b) == \E k \in 0..(Len(b) - Len(a)) : a = SubSeq(b, k + 1, k + Len(a))

C14_StageCommitPushInOrder ==
    /\ \A t \in Tasks :
          workers[t].kind = "push" =>
            /\ IsPrefix(gitlog[t], PushOrder)
            /\ Count(gitlog[t], "commit") = 1 => world[t].add = 0
            /\ Count(gitlog[t], "push") = 1 => world[t].add = 0 /\ world[t].commit = 0
    /\ \A i \in FinishedEvents("push") :
          LET t == evq[i].task
              r == evq[i].payload
          IN  (PushRan(t) /\ ~world[t].clean) =>
                /\ world[t].add # 0 =>
                      r.status = "ERROR" /\ gitlog[t] = <<"status", "add">>
                /\ (world[t].add = 0 /\ world[t].commit # 0) =>
                      r.status = "ERROR" /\ gitlog[t] = <<"status", "add", "status", "commit">>
                /\ (world[t].add = 0 /\ world[t].commit = 0 /\ world[t].push # 0) =>
                      /\ r.status = "ERROR"
                      /\ IsInfix(world[t].pushout, r.error_message)
                      /\ gitlog[t] = PushOrder
                /\ r.status = "SUCCESS" =>
                      gitlog[t] = PushOrder /\ world[t].push = 0

C14_Witness ==
    \E i \in FinishedEvents("push") :
        /\ PushRan(evq[i].task)
        /\ world[evq[i].task].commit # 0
        /\ evq[i].payload.status = "ERROR"
        /\ evq[i].payload.error_message = <<"Failed to commit changes">>
        /\ gitlog[evq[i].task] = <<"status", "add", "status", "commit">>

\* C15: a command timeout in any task, scan or operation, becomes the ERROR
\* result with the message "Timeout", delivered as the task's terminal result,
\* and the command is not run again.
ResultKind(r) == IF "status" \in DOMAIN r THEN r.status ELSE "ScanResult"

ResultMessage(r) == IF "error_message" \in DOMAIN r THEN r.error_message ELSE <<>>

TimedOut(t) == workers[t].kind # "none" /\ workers[t].proc.kind = "TimeoutExpired"

C15_TimeoutBecomesError ==
    /\ \A t \in Tasks :
          TimedOut(t) => workers[t].pc \in {"returned", "emit_error", "emit_finished", "done"}
    /\ \A i \in 1..Len(evq) :
          (evq[i].sig = "finished" /\ TimedOut(evq[i].task)) =>
              /\ ResultKind(evq[i].payload) = "ERROR"
              /\ ResultMessage(evq[i].payload) = <<"Timeout">>

\* the part of C15 that holds: the operation tasks
C15_OperationTimeout ==
    \A i \in 1..Len(evq) :
        (evq[i].sig = "finished" /\ TimedOut(evq[i].task)
            /\ workers[evq[i].task].kind \in OpKinds) =>
              /\ evq[i].payload.status = "ERROR"
              /\ evq[i].payload.error_message = <<"Timeout">>

\* a scan that timed out hands over the empty ScanResult of a scan that
\* found nothing
C15_Witness ==
    \E i \in 1..Len(evq) :
        /\ evq[i].sig = "finished"
        /\ TimedOut(evq[i].task)
        /\ workers[evq[i].task].kind \in ScanKinds
        /\ evq[i].payload = ScanResult(<<>>)

\* C16: a command that exits with a non-zero code yields one error event
\* carrying at most the first 200 characters of stderr and then the terminal
\* error result with an empty message; the output is never parsed and the error
\* event comes before the result.
ExitedNonZero(t) ==
    /\ workers[t].kind # "none"
    /\ workers[t].pc \notin BeforeReturn
    /\ workers[t].proc.kind = "completed"
    /\ workers[t].proc.returncode # 0

ErrorText(t) == SubSeq(workers[t].err, 2, Len(workers[t].err))

C16_NonZeroExit ==
    \A t \in Tasks : ExitedNonZero(t) =>
        /\ workers[t].pc # "parse"
        /\ (workers[t].pc = "done" /\ workers[t].is_running) =>
              /\ Count(emits[t], "error") = 1
              /\ Count(emits[t], "finished") = 1
              /\ emits[t][Len(emits[t]) - 1] = "error"
              /\ emits[t][Len(emits[t])] = "finished"
              /\ Head(workers[t].err) = "PowerShell error: "
              /\ Len(ErrorText(t)) <= 200
              /\ IsPrefix(ErrorText(t), workers[t].proc.stderr)
              /\ (Len(workers[t].proc.stderr) <= 200 => ErrorText(t) = workers[t].proc.stderr)
              /\ workers[t].res = get_error_result(workers[t].kind, workers[t].repo, <<>>)
              /\ ResultMessage(workers[t].res) = <<>>
              /\ \E i \in 1..Len(evq) :
                    /\ evq[i] = [sig |-> "finished", task |-> t, payload |-> workers[t].res]
                    /\ \A j \in 1..Len(evq) :
                          (evq[j].task = t /\ evq[j].sig = "error") =>
                              j < i /\ evq[j].payload = workers[t].err

C16_Witness ==
    \E t \in Tasks :
        /\ ExitedNonZero(t)
        /\ workers[t].kind \in OpKinds
        /\ Len(workers[t].proc.stderr) > 200
        /\ workers[t].pc = "done" /\ workers[t].is_running
        /\ emits[t] = <<"error", "finished">>
        /\ Len(ErrorText(t)) = 200
        /\ workers[t].res.status = "ERROR"

\* C17: an exception raised while a task parses its output (malformed JSON, a
\* JSON value of the wrong shape, a missing required field) ends in the task's
\* error result, ERROR for an operation and the message "Parse error" for
\* malformed JSON; the task still hands over exactly one result.
Unparsable(t) ==
    /\ workers[t].kind # "none"
    /\ workers[t].pc \notin BeforeReturn
    /\ workers[t].proc.kind = "completed"
    /\ workers[t].proc.returncode = 0
    /\ LET out == workers[t].proc.stdout IN
          \/ out.t = "malformed"
          \/ /\ out.t = "json"
             /\ IF workers[t].kind \in OpKinds
                THEN out.v.t # "dict" \/ "Status" \notin DOMAIN out.v.v
                ELSE parse_scan(workers[t].kind, out).exc # "none"

NothingToDo ==
    /\ runner.mode \in {"pull", "push"}
    /\ runner.scan_status = "All repositories up to date"

C18_EmptyScanDoesNothing ==
    NothingToDo =>
        /\ runner.repositories = <<>>
        /\ runner.cards = <<>>
        /\ \A t \in Tasks \ {0} : workers[t].kind = "none" /\ gitlog[t] = <<>>
        /\ runner.completed_count = 0 /\ runner.success_count = 0
        /\ runner.failed_count = 0 /\ runner.total_count = 0
        /\ runner.rpc \in {"idle", "closed"}
        /\ runner.power_option = "None"
        /\ runner.shutdown = <<>>
        /\ runner.notified = 0
        /\ runner.close_timer \/ runner.is_closing

C18_Witness ==
    /\ NothingToDo
    /\ runner.mode = "push"
    /\ workers[0].pc = "done"
    /\ workers[0].proc.kind = "completed"
    /\ runner.rpc = "closed"
    /\ evq = <<>>

\* C19: the results of operation tasks that finish concurrently are applied
\* to the counters one at a time, each exactly once: completed equals the
\* number of results delivered so far, and every result a task emitted is
\* either still queued for the GUI thread or delivered, never both or twice.
Delivered(row) == runner.results[row] # JNull

CountedInline(row) == Count(runner.rowlog[row], "MISSING")

QueuedResults(t) ==
    Cardinality({ i \in 1..Len(evq) : evq[i].sig = "finished" /\ evq[i].task = t })

C19_EachResultAppliedOnce ==
    /\ runner.completed_count
          = Cardinality({ row \in RepoRows : Delivered(row) })
            + Cardinality({ row \in RepoRows : CountedInline(row) = 1 })
    /\ \A row \in RepoRows :
          /\ Terminals(row) = (IF Delivered(row) \/ CountedInline(row) = 1 THEN 1 ELSE 0)
          /\ workers[row].kind # "none" =>
                Count(emits[row], "finished")
                    = QueuedResults(row) + (IF Delivered(row) THEN 1 ELSE 0)

\* the second task's result was applied while the first task's result,
\* emitted on another thread, waits in the queue
C19_Witness ==
    /\ Len(runner.repositories) = 2
    /\ runner.completed_count = 1
    /\ Delivered(2) /\ ~Delivered(1)
    /\ QueuedResults(1) = 1
    /\ workers[1].pc = "done" /\ workers[2].pc = "done"
    /\ runner.rpc \in EventLoop

\* C20: at every moment the number of pull or push tasks that run
\* concurrently is at most the configured throttle limit (30 by default),
\* whatever limit is configured and however many repositories are dispatched.
Running ==
    Cardinality({ t \in Tasks : /\ workers[t].kind \in OpKinds
                                /\ workers[t].pc \notin {"none", "queued", "done"} })

C20_ThrottleBoundsOperations ==
    /\ powershell_throttle_limit \in ThrottleRange
    /\ \A limit \in ThrottleRange : Running <= limit

\* what bounds the running operations is the thread count of the pool
C20_PoolBoundsOperations == Running <= MaxThreadCount

\* two operations run their commands at once, whatever the setting says
C20_Witness ==
    /\ Running = 2
    /\ workers[1].pc = "exec"
    /\ workers[2].pc = "exec"

\* C21: when the window closes the runner sets the cancellation flag of
\* every task still in flight, so that from then on no task emits its result,
\* no result changes the counters and nothing more is dispatched.
InFlight(t) == workers[t].kind # "none" /\ workers[t].pc # "done"

C21_CloseCancelsTasks ==
    runner.is_closing => \A t \in Tasks : InFlight(t) => ~workers[t].is_running

\* after the close no emission is made
C21_NoEmissionAfterClose == [][runner.is_closing => emits' = emits]_vars

\* the part of C21 that holds: a closed runner neither aggregates nor dispatches
C21_ClosedRunnerIsInert ==
    [][runner.rpc = "closed" =>
          /\ runner' = runner
          /\ \A t \in Tasks : workers[t].kind = "none" => workers'[t].kind = "none"]_vars

\* the window was closed during the scan; the scanner, never stopped, handed
\* over its result all the same
C21_Witness ==
    /\ runner.is_closing
    /\ runner.repositories = <<>>
    /\ runner.scan_status = "Scanning"
    /\ workers[0].pc = "done"
    /\ workers[0].is_running
    /\ emits[0] = <<"progress", "finished">>
    /\ \E i \in 1..Len(evq) : evq[i].sig = "finished" /\ evq[i].task = 0

PowerCommand(option) ==
    IF option = "shutdown" THEN "shutdown /s /t 5" ELSE "shutdown /r /t 5"

ScanStarted(t) ==
    workers[t].pc \in {"exec", "returned", "parse", "emit_error", "emit_finished"}

\* the count came out as 0 although the scan root holds repositories
CountFailed(t) ==
    /\ "found" \in DOMAIN world[t]
    /\ workers[t].total = 0
    /\ Len(world[t].found) > 0

\* the delta scan ran to its end and its output reached the parser unchanged
ScanIntact(t) ==
    /\ ScriptCompleted(t)
    /\ workers[t].proc.stdout
          = [t |-> "json", v |-> Script(workers[t].kind, world[t], workers[t].repo.name).stdout]

C23_CountThenProgressThenScan ==
    /\ \A outcome \in CountOutcomes \ {"number"} :
          \A n \in 0..MaxRepos : count_repositories(outcome, n) = 0
    /\ \A t \in Tasks : workers[t].kind \in ScanKinds =>
          /\ workers[t].pc \in {"queued", "progress", "begin"} =>
                workers[t].proc.kind = "none" /\ gitlog[t] = <<>>
          /\ workers[t].pc \in {"progress", "begin"} \cup {"exec"} =>
                workers[t].total \in {0, Len(world[t].found)}
          /\ ScanStarted(t) =>
                /\ emits[t] # <<>> /\ emits[t][1] = "progress"
                /\ \E i \in 1..Len(evq) :
                      evq[i] = [sig |-> "progress", task |-> t, payload |-> workers[t].total]
          /\ (CountFailed(t) /\ workers[t].pc = "done" /\ workers[t].is_running) =>
                /\ workers[t].proc.kind # "none"
                /\ Count(emits[t], "finished") = 1
                /\ emits[t][Len(emits[t])] = "finished"
                /\ "repos" \in DOMAIN workers[t].res
                /\ ScanIntact(t) =>
                      workers[t].res = parse_scan(workers[t].kind,
                                                  workers[t].proc.stdout).result

C23_Witness ==
    \E t \in Tasks :
        /\ workers[t].kind = "pullscan"
        /\ CountFailed(t)
        /\ workers[t].pc = "done" /\ workers[t].is_running
        /\ emits[t] = <<"progress", "finished">>
        /\ Len(workers[t].res.repos) = 2

\* C24: a scan payload that is one bare object parses to exactly what the
\* one-element array holding that object parses to, and each element of an
\* array payload parses to the RepoStatus it gives when parsed alone, in
\* payload order.
Payload(v) == [t |-> "json", v |-> v]

ScanPayload(t) ==
    /\ workers[t].kind \in ScanKinds
    /\ workers[t].proc.kind = "completed"
    /\ workers[t].proc.returncode = 0
    /\ workers[t].proc.stdout.t = "json"

C24_BareObjectIsOneElementList ==
    \A t \in Tasks : ScanPayload(t) =>
        LET k == workers[t].kind
            v == workers[t].proc.stdout.v
            p == parse_scan(k, Payload(v))
        IN  /\ v.t = "dict" => p = parse_scan(k, Payload(JList(<<v>>)))
            /\ (v.t = "dict" /\ p.exc = "none") => Len(p.result.repos) = 1
            /\ (v.t = "list" /\ p.exc = "none") =>
                  /\ Len(p.result.repos) = Len(v.v)
                  /\ \A i \in 1..Len(v.v) :
                        <<p.result.repos[i]>> = parse_scan(k, Payload(v.v[i])).result.repos
            /\ (workers[t].pc = "done" /\ workers[t].is_running /\ p.exc = "none") =>
                  workers[t].res = p.result

C24_Witness ==
    \E t \in Tasks :
        /\ ScanPayload(t)
        /\ workers[t].kind = "pushscan"
        /\ workers[t].proc.stdout.v.t = "dict"
        /\ workers[t].pc = "done" /\ workers[t].is_running
        /\ Len(workers[t].res.repos) = 1
        /\ workers[t].res.repos[1].name = workers[t].proc.stdout.v.v["Name"]
        /\ workers[t].res.repos[1].delta = workers[t].proc.stdout.v.v["FilesChanged"]

\* C25: every RepoStatus of a ScanResult has a delta greater than 0: a
\* repository whose delta is 0 or cannot be computed is in no ScanResult.repos
\* and is never dispatched.
ScannedRepos == IF "found" \in DOMAIN world[0] THEN world[0].found ELSE <<>>

Positive(repo) ==
    /\ repo.delta > 0
    /\ \E i \in 1..Len(ScannedRepos) :
          /\ ScannedRepos[i].name = repo.name
          /\ ScannedRepos[i].path = repo.path
          /\ ScannedRepos[i].ok
          /\ ScannedRepos[i].delta = repo.delta

C25_OnlyPositiveDeltas ==
    /\ "repos" \in DOMAIN workers[0].res =>
          \A i \in 1..Len(workers[0].res.repos) : Positive(workers[0].res.repos[i])
    /\ \A row \in RepoRows :
          /\ Positive(runner.repositories[row])
          /\ workers[row].kind # "none" =>
                \E i \in 1..Len(ScannedRepos) :
                    /\ Included(ScannedRepos[i])
                    /\ workers[row].repo.name = ScannedRepos[i].name

\* of two repositories one is in sync or has no upstream; the other one alone
\* was reported and dispatched
C25_Witness ==
    /\ Len(ScannedRepos) = 2
    /\ ~ScannedRepos[1].ok
    /\ Len(runner.repositories) = 1
    /\ runner.repositories[1].name = ScannedRepos[2].name
    /\ workers[1].kind = "pull"
    /\ workers[1].pc = "done"
    /\ workers[2].kind = "none"
    /\ runner.rpc = "closed"

\* C26: the same scan run twice in a row over unchanged repositories yields
\* two ScanResults with identical repos sequences: same names, paths and
\* deltas, in the same order.
BothScanned ==
    /\ workers[0].kind \in ScanKinds /\ workers[1].kind = workers[0].kind
    /\ workers[0].pc = "done" /\ workers[1].pc = "done"
    /\ ScanIntact(0) /\ ScanIntact(1)
    /\ world[1].found = world[0].found

ReposOf(t) == workers[t].res.repos

C26_RescanIdentical == BothScanned => ReposOf(1) = ReposOf(0)

\* the part of C26 that holds: the same repositories, each once, whatever
\* the order
C26_RescanSameRepositories ==
    BothScanned =>
        /\ Len(ReposOf(1)) = Len(ReposOf(0))
        /\ { ReposOf(1)[i] : i \in 1..Len(ReposOf(1)) }
              = { ReposOf(0)[i] : i \in 1..Len(ReposOf(0)) }

\* two repositories behind, reported in one order by the first scan and in
\* the other order by the second
C26_Witness ==
    /\ BothScanned
    /\ Len(ReposOf(0)) = 2
    /\ ReposOf(1) = <<ReposOf(0)[2], ReposOf(0)[1]>>
    /\ ReposOf(0)[1] # ReposOf(0)[2]

\* C27: after add_exclusion(r) returned True, is_excluded(r) is True and r
\* is in get_excluded_repos() exactly once, however often it was added; after
\* remove_exclusion(r) returned True, is_excluded(r) is False; neither call
\* changes the membership of another name; and an add followed by a remove of a
\* name that was not excluded gives back the list as it was.
Changed(call) == call.op \in {"add", "remove"}

C27_ExclusionListLaws ==
    runner.mode = "exclude" =>
        LET last == runner.last
            prev == runner.prev
            now == get_excluded_repos(runner)
        IN  /\ (last.op = "add" /\ last.ret) =>
                  /\ is_excluded_name(runner, last.name)
                  /\ Count(now, last.name) = 1
            /\ (last.op = "remove" /\ last.ret) => ~is_excluded_name(runner, last.name)
            /\ Changed(last) =>
                  \A other \in ExNames \ {last.name} :
                      (other \in Range(now)) = (other \in Range(last.before))
            /\ (Changed(last) /\ last.ret /\ now # last.before) =>
                  /\ runner.file.state = "ok"
                  /\ runner.file.machines = runner.cache.machines
            /\ (prev.op = "add" /\ last.op = "remove" /\ prev.name = last.name
                  /\ prev.name \notin Range(prev.before)) => now = prev.before

C27_Witness ==
    /\ runner.mode = "exclude"
    /\ runner.prev = [op |-> "add", name |-> "dotfiles", ret |-> TRUE,
                      before |-> <<"nvim-config">>]
    /\ runner.last = [op |-> "remove", name |-> "dotfiles", ret |-> TRUE,
                      before |-> <<"nvim-config", "dotfiles">>]
    /\ get_excluded_repos(runner) = <<"nvim-config">>
    /\ runner.file.machines[Me] = <<"nvim-config">>

\* C28: the push runner issues the shutdown or restart command only when
\* every repository of the phase has its terminal result, failed == 0 and the
\* selected post-action is 'shutdown' or 'restart'; SKIPPED repositories do
\* not prevent it, a '*_cancel' selection never issues it, and it is issued at
\* most once in a run.
C28_ShutdownOnlyAfterCleanPhase ==
    /\ Len(runner.shutdown) <= 1
    /\ runner.power_option \in {"shutdown_cancel", "restart_cancel", "None"} =>
          runner.shutdown = <<>>
    /\ runner.shutdown # <<>> =>
          /\ runner.mode = "push"
          /\ AllTerminal
          /\ \A row \in RepoRows :
                /\ Terminals(row) = 1
                /\ runner.cards[row] \in {"SUCCESS", "SKIPPED"}
          /\ runner.failed_count = 0
          /\ runner.completed_count = Len(runner.repositories)
          /\ runner.success_count + runner.skipped = runner.completed_count
          /\ \A t \in Tasks \ {0} : workers[t].pc \in {"none", "done"}

C28_Witness ==
    /\ runner.mode = "push"
    /\ runner.power_option = "shutdown"
    /\ runner.shutdown = <<"shutdown /s /t 5">>
    /\ Len(runner.repositories) = 2
    /\ runner.cards = <<"SKIPPED", "SUCCESS">>
    /\ runner.rowlog[1] = <<"gate", "manual_push", "SKIPPED">>

\* the push runner with the two timers of the power panel firing when due:
\* the countdown's single shot and the OPERATIONS_START_DELAY single shot
SpecLive == Init /\ [][Next]_vars /\ WF_vars(AutoSelectDefault) /\ WF_vars(RunOperations)

PushFound == runner.mode = "push" /\ runner.scan_status = "Found"

C29_SelectionGuardsDispatch ==
    runner.mode = "push" =>
        /\ runner.selections <= 1
        /\ runner.dispatches <= runner.selections
        /\ (runner.selections = 1) = (runner.power_option \in Options)
        /\ (PushFound /\ runner.selections = 0) =>
              /\ runner.rpc \in {"power_panel", "closed"}
              /\ ~runner.is_closing => ENABLED OnPowerOptionSelected /\ ENABLED AutoSelectDefault
        /\ \A t \in Tasks \ {0} :
              workers[t].kind # "none" => runner.selections = 1 /\ runner.dispatches = 1
        /\ \A row \in RepoRows :
              runner.rowlog[row] # <<>> => runner.dispatches = 1
        /\ (runner.selections = 1 /\ runner.dispatches = 0 /\ ~runner.is_closing) =>
              runner.rpc = "timer_ops" /\ ENABLED RunOperations
        /\ runner.selections = 1 => PushFound

\* C29: in the push runner, after a scan that found a repository the power
\* options panel is shown and no push is dispatched before a post-action is
\* selected; one selection is accepted in a run, the first click or else the
\* default at the end of the countdown, and it starts the dispatch of the
\* pushes, once.
C29_GateThenOneDispatch ==
    /\ []C29_SelectionGuardsDispatch
    /\ PushFound ~> (runner.selections = 1 /\ runner.dispatches = 1)

C29_Witness ==
    /\ PushFound
    /\ runner.selections = 1
    /\ runner.dispatches = 1
    /\ runner.power_option = "restart_cancel"
    /\ Len(runner.repositories) = 2
    /\ workers[1].pc = "exec"
    /\ workers[2].pc = "queued"

\* ============================================ window events and the scan start
\* BaseRunner.__init__, showEvent, the retry button of InternetChecker and
\* GitPullRunner._start_scan, held in `runner` with mode "startup":
\*   window        "hidden" before show(), "shown", "minimized", "closed"
\*   retry_button  "hidden", "enabled", or "checking" while the 500 ms single
\*                 shot of _perform_retry_check is pending
\*   scan_timers   pending single shots of _start_scan
\*   has_pool      self.threadpool exists (_setup_scanner ran)
\*   scanning      scanner workers started whose result was not yet handled
\*   scans         scans started so far
\*   ops_timers    pending single shots of _run_operations
\*   phases        how often _run_operations ran
\*   outstanding   pull workers started whose result was not yet counted
MaxScans == 2

\* repositories a scan may find
FoundCounts == 0..1

\* BaseRunner.__init__: _check_internet_status sets has_internet and shows the
\* retry button when the check failed
NewWindow(has) ==
    [mode |-> "startup", window |-> "hidden", scan_started |-> FALSE,
     has_internet |-> has, is_closing |-> FALSE,
     retry_button |-> IF has THEN "hidden" ELSE "enabled",
     scan_timers |-> 0, has_pool |-> FALSE, scanning |-> 0, scans |-> 0,
     repositories |-> 0, ops_timers |-> 0, close_timer |-> FALSE, phases |-> 0,
     completed_count |-> 0, total_count |-> 0, outstanding |-> 0]

\* BaseRunner.showEvent, not in test mode: the window is shown by show() or
\* restored after being minimized
ShowEvent ==
    /\ runner.mode = "startup"
    /\ runner.window \in {"hidden", "minimized"}
    /\ runner.scan_started \/ runner.scan_timers + runner.scans < MaxScans
    /\ runner' = IF runner.scan_started
                 THEN [runner EXCEPT !.window = "shown"]
                 ELSE [runner EXCEPT !.window = "shown", !.scan_started = TRUE,
                                     !.scan_timers = IF runner.has_internet THEN @ + 1 ELSE @]
    /\ UNCHANGED <<workers, evq, world, gitlog, emits, stop_pc>>

\* the user minimizes the window; no handler runs
Minimize ==
    /\ runner.mode = "startup"
    /\ runner.window = "shown"
    /\ runner' = [runner EXCEPT !.window = "minimized"]
    /\ UNCHANGED <<workers, evq, world, gitlog, emits, stop_pc>>

\* InternetChecker._on_retry_clicked
OnRetryClicked ==
    /\ runner.mode = "startup"
    /\ runner.window = "shown"
    /\ runner.retry_button = "enabled"
    /\ runner' = [runner EXCEPT !.retry_button = "checking"]
    /\ UNCHANGED <<workers, evq, world, gitlog, emits, stop_pc>>

\* InternetChecker._perform_retry_check, ok the outcome of _check_internet
PerformRetryCheck ==
    /\ runner.mode = "startup"
    /\ runner.window # "closed"
    /\ runner.retry_button = "checking"
    /\ runner.scan_timers + runner.scans < MaxScans
    /\ \E ok \in BOOLEAN :
          runner' = IF ok
                    THEN [runner EXCEPT !.has_internet = TRUE, !.retry_button = "hidden",
                                        !.scan_started = FALSE, !.scan_timers = @ + 1]
                    ELSE [runner EXCEPT !.has_internet = FALSE, !.retry_button = "enabled"]
    /\ UNCHANGED <<workers, evq, world, gitlog, emits, stop_pc>>

\* a single shot of GitPullRunner._start_scan fires: BaseRunner._start_scan
\* returns early without a connection or while closing, and the override goes
\* on to self.threadpool.start(self.worker), an AttributeError without a pool
StartScanTimer ==
    /\ runner.mode = "startup"
    /\ runner.window # "closed"
    /\ runner.scan_timers > 0
    /\ LET skipped == ~runner.has_internet \/ runner.is_closing
           pool == runner.has_pool \/ ~skipped
       IN  runner' = IF pool
                     THEN [runner EXCEPT !.scan_timers = @ - 1, !.has_pool = TRUE,
                                         !.scanning = @ + 1, !.scans = @ + 1]
                     ELSE [runner EXCEPT !.scan_timers = @ - 1]
    /\ UNCHANGED <<workers, evq, world, gitlog, emits, stop_pc>>

\* a scanner's finished signal reaches GitPullRunner._on_scan_finished with a
\* result of `found` repositories
ScanCompleted ==
    /\ runner.mode = "startup"
    /\ runner.window # "closed"
    /\ runner.scanning > 0
    /\ \E found \in FoundCounts :
          runner' = IF runner.is_closing
                    THEN [runner EXCEPT !.scanning = @ - 1]
                    ELSE IF found > 0
                    THEN [runner EXCEPT !.scanning = @ - 1, !.repositories = found,
                                        !.ops_timers = @ + 1]
                    ELSE [runner EXCEPT !.scanning = @ - 1, !.repositories = found,
                                        !.close_timer = TRUE]
    /\ UNCHANGED <<workers, evq, world, gitlog, emits, stop_pc>>

\* a single shot of GitPullRunner._run_operations fires: counters reset, one
\* worker per repository
OperationsTimer ==
    /\ runner.mode = "startup"
    /\ runner.window # "closed"
    /\ runner.ops_timers > 0
    /\ runner' = [runner EXCEPT !.ops_timers = @ - 1, !.completed_count = 0,
                                !.total_count = runner.repositories,
                                !.outstanding = @ + runner.repositories,
                                !.phases = @ + 1]
    /\ UNCHANGED <<workers, evq, world, gitlog, emits, stop_pc>>

\* GitPullRunner._on_pull_finished: a result is counted, the last of the
\* phase arms the close timer
PullCompleted ==
    /\ runner.mode = "startup"
    /\ runner.window # "closed"
    /\ runner.outstanding > 0
    /\ runner' = [runner EXCEPT !.outstanding = @ - 1,
                                !.completed_count = @ + 1,
                                !.close_timer = @ \/ runner.completed_count + 1 = runner.total_count]
    /\ UNCHANGED <<workers, evq, world, gitlog, emits, stop_pc>>

\* BaseRunner.closeEvent, by the user or by the close timer
WindowClosed ==
    /\ runner.mode = "startup"
    /\ runner.window # "closed"
    /\ runner' = [runner EXCEPT !.is_closing = TRUE, !.window = "closed"]
    /\ UNCHANGED <<workers, evq, world, gitlog, emits, stop_pc>>

InitShow ==
    /\ \E has \in BOOLEAN : runner = NewWindow(has)
    /\ workers = [t \in Tasks |-> NoTask]
    /\ evq = <<>>
    /\ world = [t \in Tasks |-> NoWorld]
    /\ gitlog = [t \in Tasks |-> <<>>]
    /\ emits = [t \in Tasks |-> <<>>]
    /\ stop_pc = [t \in Tasks |-> ""]

NextShow ==
    \/ ShowEvent
    \/ Minimize
    \/ OnRetryClicked
    \/ PerformRetryCheck
    \/ StartScanTimer
    \/ ScanCompleted
    \/ OperationsTimer
    \/ PullCompleted
    \/ WindowClosed

SpecShow == InitShow /\ [][NextShow]_vars

\* C30: whatever the window show events, connection retries and scan
\* completions, at most one scan runs at a time and the operation phase runs
\* at most once, so no repository is dispatched twice and the counters are not
\* reset while results are outstanding; a scan starts only with a successful
\* internet check and a window that is not closing.
C30_OneScanOnePhase ==
    /\ runner.scanning <= 1
    /\ runner.phases <= 1
    /\ runner.completed_count <= runner.total_count
    /\ runner.scanning > 0 => runner.has_internet

\* the part of C30 that holds: no scan without a successful internet check,
\* none started by a closed window
C30_ScanNeedsInternet ==
    /\ (runner.scans > 0 \/ runner.scan_timers > 0) => runner.has_internet
    /\ runner.scans + runner.scan_timers <= MaxScans

\* offline at start, the retry succeeded, the restored window started a
\* second scan beside the first
C30_Witness ==
    /\ runner.mode = "startup"
    /\ runner.window = "shown"
    /\ runner.scanning = 2
    /\ runner.scan_started
    /\ runner.has_internet
    /\ runner.retry_button = "hidden"

====
